---- MODULE Spec2Model ----
(***************************************************************************)
(* Screen navigation of the LVGL menu application, both revisions:         *)
(*   OldRev = src/main.c      (Timezone page, option pages take a handle)  *)
(*   NewRev = src/src/main.c  (OTA, NES browser, Start Game)               *)
(* A screen is an object created on lv_scr_act(); its focusable children   *)
(* are members of the single default group.  Every action is one handler   *)
(* run by the poll loop (main: while(1) lv_timer_handler()), translated    *)
(* statement by statement as a function from state record to state record. *)
(* LVGL (v8) calls are modelled by what they do to hidden flags, the group *)
(* and the focus pointer.                                                  *)
(***************************************************************************)
EXTENDS Integers, Sequences, FiniteSets, TLC

\* ---------------------------------------------------------------- bounds
\* Screens allocated at the same time (leaked screens make this unbounded).
MaxScr == 5
\* Regular files in /oem/nes_game.
MaxRoms == 2
\* Values 0..MaxPrefValue of a key in a preferences file found at startup.
MaxPrefValue == 2

\* ------------------------------------------------------------- constants
OldRev == "src/main.c"
NewRev == "src/src/main.c"
Revisions == {OldRev, NewRev}

NULL == 0
\* menu_list is created once, before the poll loop, and never deleted.
MENU == 1

ScrIds == 1..MaxScr
\* the clock label, a child of lv_scr_act() like the screens
TIME_LABEL == MaxScr + 1

NoItem == [s |-> NULL, i |-> 0]
Item(id, idx) == [s |-> id, i |-> idx]

NoClosed == [kind |-> "", owner |-> NULL, from |-> 0, children |-> <<>>]

FreeScr ==
    [kind |-> "free", hidden |-> FALSE, close_cb |-> "", children |-> <<>>,
     data |-> <<>>, text |-> <<>>, owner |-> NULL, from |-> 0]

VARIABLES
    rev,                  \* which revision runs
    writable,             \* environment: fopen(PREFS_FILE, "w") succeeds
    prefs,                \* environment: contents of PREFS_FILE
    scr,                  \* objects on lv_scr_act(), by handle
    grp,                  \* the default group: focusable objects in order
    focus,                \* the group's focused object
    btn_id_sel,           \* selected button of the msgbox button matrix
    time_label,           \* handle of the clock label
    time_label_hidden,    \* hidden flag of time_label
    time_label_text,      \* text of time_label, character by character
    now,                  \* environment: local time read by time_update_task
    about_screen,
    console_screen,
    settings_screen,
    time_settings_screen,
    ota_update_screen,
    nes_browser_screen,
    show_seconds,
    is_24_hour_format,
    edit_hour,            \* the time being edited on the time setter page
    edit_minute,
    trace,                \* effects of the last handler, in program order
    created,              \* history: handle created by the last handler
    closed,               \* history: screen deleted by the last handler, as it was
    pushOnly,             \* history: no screen was closed or handed off so far
    ub,                   \* history: a handler used a handle of a deleted object
    first_run,            \* history: PREFS_FILE was absent at startup
    blocked,              \* the poll loop is inside system(), waiting for a command
    twin,                 \* a second run of the program, as a state record
    services,             \* environment: httpd, fbterm and the commands under way
    keys                  \* history: the keys time_value_adjust_event_cb handled

vars ==
    <<rev, writable, prefs, scr, grp, focus, btn_id_sel, time_label,
      time_label_hidden,
      time_label_text, now, about_screen, console_screen, settings_screen,
      time_settings_screen, ota_update_screen, nes_browser_screen,
      show_seconds, is_24_hour_format, edit_hour, edit_minute, trace, created,
      closed, pushOnly, ub, first_run, blocked, twin, services, keys>>

\* ------------------------------------------------------- the state record
\* The program state as one record, so that a handler is a function on it.
Cur ==
    [rev |-> rev, writable |-> writable, prefs |-> prefs, scr |-> scr,
     grp |-> grp, focus |-> focus, btn_id_sel |-> btn_id_sel,
     time_label |-> time_label, time_label_hidden |-> time_label_hidden,
     time_label_text |-> time_label_text, now |-> now,
     about_screen |-> about_screen, console_screen |-> console_screen,
     settings_screen |-> settings_screen,
     time_settings_screen |-> time_settings_screen,
     ota_update_screen |-> ota_update_screen,
     nes_browser_screen |-> nes_browser_screen,
     show_seconds |-> show_seconds, is_24_hour_format |-> is_24_hour_format,
     edit_hour |-> edit_hour, edit_minute |-> edit_minute,
     trace |-> <<>>, created |-> NULL, closed |-> NoClosed,
     ub |-> ub, already_running |-> FALSE, overflow |-> FALSE,
     terminates |-> TRUE, succeeds |-> TRUE, status |-> 0,
     blocked |-> FALSE, frozen |-> <<>>, services |-> services]

Ev(s, what, arg) == [s EXCEPT !.trace = Append(@, <<what, arg>>)]

Alive(s, id) == id \in ScrIds /\ s.scr[id].kind # "free"
AliveIds(s) == {id \in ScrIds : s.scr[id].kind # "free"}
KindOf(s, id) == IF id \in ScrIds THEN s.scr[id].kind ELSE "time_label"

\* ------------------------------------------------------------------ LVGL
\* lv_obj_add_flag(obj, LV_OBJ_FLAG_HIDDEN)
lv_obj_add_flag(s, id) ==
    IF ~Alive(s, id) THEN [s EXCEPT !.ub = TRUE]
    ELSE Ev([s EXCEPT !.scr[id].hidden = TRUE], "hide", s.scr[id].kind)

\* lv_obj_clear_flag(obj, LV_OBJ_FLAG_HIDDEN)
lv_obj_clear_flag(s, id) ==
    IF ~Alive(s, id) THEN [s EXCEPT !.ub = TRUE]
    ELSE Ev([s EXCEPT !.scr[id].hidden = FALSE], "unhide", s.scr[id].kind)

\* An object is shown only if neither it nor a parent carries the hidden flag.
Shown(s, it) == Alive(s, it.s) /\ ~s.scr[it.s].hidden

InGroup(s, it) == \E k \in 1..Len(s.grp) : s.grp[k] = it
PosOf(s, it) == IF InGroup(s, it) THEN CHOOSE k \in 1..Len(s.grp) : s.grp[k] = it ELSE 0

\* lv_group_focus_obj(obj): an object that is in no group is left alone.
\* Focusing the button matrix with the keypad selects its first button.
lv_group_focus_obj(s, it) ==
    IF ~Alive(s, it.s) THEN [s EXCEPT !.ub = TRUE]
    ELSE IF InGroup(s, it)
    THEN Ev([s EXCEPT !.focus = it, !.btn_id_sel = 0], "focus", s.scr[it.s].kind)
    ELSE s

\* lv_group_add_obj(group, obj): appended; the first object of an empty
\* group is focused at once.
lv_group_add_obj(s, it) ==
    LET s1 == [s EXCEPT !.grp = Append(@, it)]
    IN  IF Len(s.grp) = 0 THEN [s1 EXCEPT !.focus = it] ELSE s1

\* create_styled_list_btn + lv_group_add_obj for children idxs[1..] of id
RECURSIVE AddBtns(_, _, _)
AddBtns(s, id, idxs) ==
    IF idxs = <<>> THEN s
    ELSE AddBtns(lv_group_add_obj(s, Item(id, Head(idxs))), id, Tail(idxs))

\* lv_group_focus_next / lv_group_focus_prev (dir = 1 / -1): the nearest
\* shown object after (before) the focused one, wrapping around; unchanged
\* when there is no other shown object.
FocusMove(s, dir) ==
    LET n == Len(s.grp)
        p == PosOf(s, s.focus)
        at(k) == IF p = 0
                 THEN (IF dir = 1 THEN k ELSE n + 1 - k)
                 ELSE ((p - 1 + n + dir * k) % n) + 1
        ks == IF p = 0 THEN 1..n ELSE 1..(n - 1)
        ok == {k \in ks : Shown(s, s.grp[at(k)])}
    IN  IF ok = {} THEN s
        ELSE LET k0 == CHOOSE k \in ok : \A j \in ok : k <= j
             IN  [s EXCEPT !.focus = s.grp[at(k0)], !.btn_id_sel = 0]

\* lv_group_remove_obj(obj): a focused object hands the focus to the next
\* shown one; when there is none the group has no focused object.
lv_group_remove_obj(s, it) ==
    LET s1 == IF s.focus = it THEN FocusMove(s, 1) ELSE s
        s2 == IF s1.focus = it THEN [s1 EXCEPT !.focus = NoItem] ELSE s1
    IN  [s2 EXCEPT !.grp = SelectSeq(@, LAMBDA x : x # it)]

RECURSIVE RemoveAll(_, _)
RemoveAll(s, its) ==
    IF its = <<>> THEN s
    ELSE RemoveAll(lv_group_remove_obj(s, Head(its)), Tail(its))

\* lv_obj_create / lv_list_create / lv_msgbox_create on lv_scr_act():
\* the lowest free handle (a freed address may be handed out again).
\* Beyond MaxScr screens the step is dropped (overflow).
Fresh(s) ==
    IF AliveIds(s) = ScrIds THEN MaxScr
    ELSE CHOOSE id \in ScrIds : ~Alive(s, id) /\ \A j \in ScrIds : ~Alive(s, j) => id <= j

lv_obj_create(s, id, kind, close_cb, children, t) ==
    IF Alive(s, id) THEN [s EXCEPT !.overflow = TRUE]
    ELSE Ev([s EXCEPT !.scr[id] =
                [kind |-> kind, hidden |-> FALSE, close_cb |-> close_cb,
                 children |-> children, data |-> <<>>, text |-> <<>>,
                 owner |-> t.s, from |-> t.i],
             !.created = id], "create", kind)

\* lv_list_get_btn_text(list, btn)
lv_list_get_btn_text(s, it) == s.scr[it.s].children[it.i + 1]

\* The command lines that end in "&": the shell starts the program and exits.
BackgroundCommands ==
    {"/etc/init.d/S99fbterm start_with_input &",
     "/root/term_start_all.sh < /dev/null &",
     "/root/nes_start.sh \"/oem/nes_game/%s\" &",
     "toggle_httpd.sh restart &",
     "toggle_httpd.sh stop &"}

\* At boot: no web server, no terminal, no command under way, and no web
\* server command issued so far (last).
NoServices == [httpd |-> FALSE, fbterm |-> FALSE, jobs |-> {}, last |-> ""]

\* What a command does to the services when system() has returned: a
\* command put in the background is under way and takes effect later; the
\* stop of the terminal has taken effect, on a terminal that is running.
Issue(sv, cmd) ==
    CASE cmd = "toggle_httpd.sh restart &" ->
            [sv EXCEPT !.jobs = @ \cup {"httpd restart"}, !.last = "restart"]
      [] cmd = "toggle_httpd.sh stop &" ->
            [sv EXCEPT !.jobs = @ \cup {"httpd stop"}, !.last = "stop"]
      [] cmd = "/etc/init.d/S99fbterm start_with_input &" ->
            [sv EXCEPT !.jobs = @ \cup {"fbterm start"}]
      [] cmd = "/etc/init.d/S99fbterm stop" -> [sv EXCEPT !.fbterm = FALSE]
      [] OTHER -> sv

\* system(cmd): runs sh -c cmd and waits for the shell to exit.  A command
\* that is not put in the background keeps the caller waiting while it runs;
\* when it never terminates the handler stops here (frozen: the state at
\* that point, which is the state the program stays in).
\* It returns the exit status of the shell: 0 for a command line ending in
\* "&", else that of the command (succeeds: the environment's answer).  A
\* successful date -s "HH:MM:00" sets the system clock.
system(s, cmd) ==
    LET s1 == Ev(s, "system", cmd)
        done == cmd \in BackgroundCommands \/ s.terminates
        s2 == [s1 EXCEPT !.status = IF cmd \in BackgroundCommands \/ s.succeeds
                                    THEN 0 ELSE 1,
                         !.now = IF cmd = "date -s" /\ s.succeeds /\ done
                                 THEN [h |-> s.edit_hour, m |-> s.edit_minute, s |-> 0]
                                 ELSE @,
                         !.services = Issue(@, cmd)]
    IN  IF ~done /\ ~s.blocked
        THEN [s1 EXCEPT !.blocked = TRUE, !.frozen = <<s1>>]
        ELSE s2

\* lv_timer_handler(): returns at once when it is already running (the
\* handlers run inside the poll loop's call); otherwise renders and flushes.
lv_timer_handler(s) ==
    IF s.already_running THEN s ELSE Ev(s, "flush", "")

\* lv_refr_now(disp): renders and flushes now.
lv_refr_now(s) == Ev(s, "flush", "")

\* ----------------------------------------------------------- preferences
\* PREFS_FILE: absent, or the two lines KEY=value.
NoFile == [exists |-> FALSE, SHOW_SECONDS |-> 0, IS_24_HOUR |-> 0]
PrefFiles ==
    {NoFile} \cup [exists : {TRUE}, SHOW_SECONDS : 0..MaxPrefValue,
                   IS_24_HOUR : 0..MaxPrefValue]

\* fprintf(fp, "KEY=%d\n", flag ? 1 : 0)
fprintf(s, key, flag) ==
    LET v == IF flag THEN 1 ELSE 0
    IN  Ev([s EXCEPT !.prefs = [@ EXCEPT !.exists = TRUE, ![key] = v]],
           "fprintf", key \o "=" \o ToString(v))

\* fopen(PREFS_FILE, "w") truncates the file; a failed fopen leaves it alone.
save_preferences(s) ==
    IF ~s.writable THEN Ev(s, "save", "failed")
    ELSE LET s1 == [s EXCEPT !.prefs = [NoFile EXCEPT !.exists = TRUE]]
             s2 == fprintf(s1, "SHOW_SECONDS", s.show_seconds)
             s3 == fprintf(s2, "IS_24_HOUR", s.is_24_hour_format)
         IN  Ev(s3, "save", "ok")

\* Variant of load_preferences that returns without creating the file when
\* it is absent.
load_preferences_NoCreate(s) ==
    IF ~s.prefs.exists THEN Ev(s, "load", "absent")
    ELSE Ev([s EXCEPT !.show_seconds = (s.prefs.SHOW_SECONDS = 1),
                      !.is_24_hour_format = (s.prefs.IS_24_HOUR = 1)],
            "load", "ok")

\* Variant of load_preferences that assigns each key to the other flag.
load_preferences_Swapped(s) ==
    IF ~s.prefs.exists THEN save_preferences(Ev(s, "load", "absent"))
    ELSE Ev([s EXCEPT !.show_seconds = (s.prefs.IS_24_HOUR = 1),
                      !.is_24_hour_format = (s.prefs.SHOW_SECONDS = 1)],
            "load", "ok")

\* sscanf(line, "%[^=]=%d", key, &value) and flag = (value == 1), line by line
load_preferences(s) ==
    IF ~s.prefs.exists THEN save_preferences(Ev(s, "load", "absent"))
    ELSE Ev([s EXCEPT !.show_seconds = (s.prefs.SHOW_SECONDS = 1),
                      !.is_24_hour_format = (s.prefs.IS_24_HOUR = 1)],
            "load", "ok")

\* Variant of format_str that selects the format without seconds in
\* 12-hour mode whatever show_seconds is.
format_str_NoSeconds12(is24, secs) ==
    IF is24 THEN (IF secs THEN "%H:%M:%S" ELSE "%H:%M")
    ELSE "%I:%M %p"

\* The strftime format time_update_task selects.
format_str(is24, secs) ==
    IF is24 THEN (IF secs THEN "%H:%M:%S" ELSE "%H:%M")
    ELSE (IF secs THEN "%I:%M:%S %p" ELSE "%I:%M %p")

\* Local time of day, as localtime() returns it in struct tm.
Times == [h : 0..23, m : 0..59, s : 0..59]

Digit == <<"0", "1", "2", "3", "4", "5", "6", "7", "8", "9">>

\* A two-digit field: %H, %M, %S, %I
D2(n) == <<Digit[(n \div 10) + 1], Digit[(n % 10) + 1]>>

\* %I: the hour on the 12-hour clock, 01..12
Hour12(h) == IF h % 12 = 0 THEN 12 ELSE h % 12

\* %p in the "C" locale
AmPm(h) == IF h < 12 THEN <<"A", "M">> ELSE <<"P", "M">>

\* The characters strftime produces for the four formats of format_str.
strftime(fmt, tm) ==
    CASE fmt = "%H:%M:%S" -> D2(tm.h) \o <<":">> \o D2(tm.m) \o <<":">> \o D2(tm.s)
      [] fmt = "%H:%M" -> D2(tm.h) \o <<":">> \o D2(tm.m)
      [] fmt = "%I:%M:%S %p" ->
            D2(Hour12(tm.h)) \o <<":">> \o D2(tm.m) \o <<":">> \o D2(tm.s)
                \o <<" ">> \o AmPm(tm.h)
      [] fmt = "%I:%M %p" ->
            D2(Hour12(tm.h)) \o <<":">> \o D2(tm.m) \o <<" ">> \o AmPm(tm.h)
      [] OTHER -> <<>>

\* char time_str[12]
time_str_size == 12

\* Variant of time_update_task that also shows the label.
time_update_task_Unhide(s) ==
    LET f == format_str(s.is_24_hour_format, s.show_seconds)
        str == strftime(f, s.now)
    IN  Ev([s EXCEPT !.time_label_text = str, !.time_label_hidden = FALSE], "label", f)

\* strftime returns 0 and leaves time_str undefined when the text and its
\* terminating null byte do not fit; the label is then set from an
\* undefined buffer (ub).  lv_label_set_text needs an existing label.
time_update_task(s) ==
    LET f == format_str(s.is_24_hour_format, s.show_seconds)
        str == strftime(f, s.now)
    IN  IF Len(str) + 1 > time_str_size \/ s.time_label = NULL
        THEN Ev([s EXCEPT !.ub = TRUE], "label", f)
        ELSE Ev([s EXCEPT !.time_label_text = str], "label", f)

\* ------------------------------------------------------- close callbacks
modal_close_event_cb(s) ==
    lv_group_focus_obj(lv_obj_clear_flag(s, MENU), Item(MENU, 0))

\* Variant of settings_screen_close_cb that leaves the main menu hidden.
settings_screen_close_cb_NoShow(s) ==
    lv_group_focus_obj(s, Item(MENU, 2))

settings_screen_close_cb(s) ==
    lv_group_focus_obj(lv_obj_clear_flag(s, MENU), Item(MENU, 2))

time_settings_screen_close_cb(s) ==
    IF s.settings_screen # NULL
    THEN lv_group_focus_obj(lv_obj_clear_flag(s, s.settings_screen),
                            Item(s.settings_screen, 0))
    ELSE s

sub_page_close_event_cb(s) ==
    IF s.time_settings_screen # NULL
    THEN lv_group_focus_obj(lv_obj_clear_flag(s, s.time_settings_screen),
                            Item(s.time_settings_screen, 0))
    ELSE s

\* Variant of ota_screen_close_event_cb that does not stop the web server.
ota_screen_close_event_cb_NoStop(s) ==
    IF s.settings_screen # NULL
    THEN lv_group_focus_obj(lv_obj_clear_flag(s, s.settings_screen),
                            Item(s.settings_screen, 1))
    ELSE s

ota_screen_close_event_cb(s) ==
    LET s1 == system(s, "toggle_httpd.sh stop &")
    IN  IF s1.settings_screen # NULL
        THEN lv_group_focus_obj(lv_obj_clear_flag(s1, s1.settings_screen),
                                Item(s1.settings_screen, 1))
        ELSE s1

nes_browser_screen_close_cb(s) ==
    lv_group_focus_obj(lv_obj_clear_flag(s, MENU), Item(MENU, 1))

\* The LV_EVENT_DELETE callback registered with lv_obj_add_event_cb.
SendDelete(s, cb) ==
    CASE cb = "modal_close_event_cb" -> modal_close_event_cb(s)
      [] cb = "settings_screen_close_cb" -> settings_screen_close_cb(s)
      [] cb = "time_settings_screen_close_cb" -> time_settings_screen_close_cb(s)
      [] cb = "sub_page_close_event_cb" -> sub_page_close_event_cb(s)
      [] cb = "ota_screen_close_event_cb" -> ota_screen_close_event_cb(s)
      [] cb = "nes_browser_screen_close_cb" -> nes_browser_screen_close_cb(s)
      [] OTHER -> s

\* lv_obj_del(obj): LV_EVENT_DELETE is sent to the object first, then its
\* children and the object leave the group, then the memory is released.
lv_obj_del(s, id) ==
    IF ~Alive(s, id) THEN [s EXCEPT !.ub = TRUE]
    ELSE
    LET r == s.scr[id]
        s0 == Ev([s EXCEPT !.closed = [kind |-> r.kind, owner |-> r.owner,
                                       from |-> r.from,
                                       children |-> r.children]], "del", r.kind)
        s1 == SendDelete(s0, r.close_cb)
        s2 == RemoveAll(s1, SelectSeq(s1.grp, LAMBDA x : x.s = id))
    IN  [s2 EXCEPT !.scr = [j \in ScrIds |->
            IF j = id THEN FreeScr
            ELSE IF s2.scr[j].owner = id THEN [s2.scr[j] EXCEPT !.owner = NULL]
            ELSE s2.scr[j]]]

\* generic_delete_obj_event_cb: user data is the object to delete
generic_delete_obj_event_cb(s, obj_to_delete) ==
    IF obj_to_delete # NULL THEN lv_obj_del(s, obj_to_delete) ELSE s

\* ------------------------------------------------------ screen creation
Idx(n) == [k \in 1..n |-> k - 1]

hide_time_label(s) == Ev([s EXCEPT !.time_label_hidden = TRUE], "hide", "time_label")
show_time_label(s) == Ev([s EXCEPT !.time_label_hidden = FALSE], "unhide", "time_label")

menu_items == <<"Start Game", "Console", "NES Emulator", "Settings", "About", "Reboot">>
menu_items_old == <<"Start Game", "Console", "Settings", "About", "Reboot">>

\* create_main_menu: the first button added to the empty group gets the focus.
create_main_menu(s) ==
    LET items == IF s.rev = OldRev THEN menu_items_old ELSE menu_items
        s1 == lv_obj_create(s, MENU, "menu", "", items, NoItem)
    IN  AddBtns(s1, MENU, Idx(Len(items)))

\* fopen(path, "r"); f: the file, f.ok: it can be opened
fopen(s, path, f) ==
    Ev(s, "fopen", path \o (IF f.ok THEN "" ELSE ": failed"))

\* read_file_to_string: the content of the file, or the error text
read_file_to_string(filepath, f) ==
    IF ~f.ok THEN "Error: Cannot open " \o filepath ELSE f.content

\* /proc/meminfo: unreadable, or its MemTotal and MemAvailable lines in kB
MemInfos ==
    {[ok |-> FALSE, MemTotal |-> 0, MemAvailable |-> 0]}
        \cup [ok : {TRUE}, MemTotal : {59392}, MemAvailable : {512, 30720}]

\* /oem/pkpy/info: unreadable, empty, or one line
InfoFiles ==
    {[ok |-> FALSE, content |-> ""], [ok |-> TRUE, content |-> ""],
     [ok |-> TRUE, content |-> "pkpy 2.0"]}

\* The text of about_label, line by line.  mem_total and mem_available
\* start at 0 and are assigned only when /proc/meminfo is opened.  The
\* children are about_label and back_btn; back_btn is the group member.
create_about_screen(s, t, meminfo, info) ==
    LET id == Fresh(s)
        s1 == lv_obj_create(s, id, "about", "modal_close_event_cb",
                            <<"about_label", "Back">>, t)
        s2 == [s1 EXCEPT !.about_screen = id]
        s3 == fopen(s2, "/proc/meminfo", meminfo)
        mem_total == IF meminfo.ok THEN meminfo.MemTotal ELSE 0
        mem_available == IF meminfo.ok THEN meminfo.MemAvailable ELSE 0
        s4 == fopen(s3, "/oem/pkpy/info", info)
        buffer == <<"Device: Luckfox Pico",
                    "Memory: " \o ToString(mem_total \div 1024) \o " MB / "
                        \o ToString(mem_available \div 1024) \o " MB Available",
                    "",
                    "Package Version:",
                    read_file_to_string("/oem/pkpy/info", info),
                    "Developer: Snowmiku",
                    "github.com/18650official">>
        s5 == [s4 EXCEPT !.scr[id].text = buffer]
    IN  lv_group_focus_obj(lv_group_add_obj(s5, Item(id, 1)), Item(id, 1))

\* The message box: close button (child 0) and button matrix (child 1) join
\* the default group when lv_msgbox_create creates them, the box itself
\* (item 2) by lv_group_add_obj.
reboot_btns(s) == IF s.rev = OldRev THEN <<"Confirm", "Cancel">> ELSE <<"Confirm">>

\* Variant of create_reboot_msgbox that leaves the main menu shown.
create_reboot_msgbox_NoHide(s, t) ==
    LET id == Fresh(s)
        s2 == lv_obj_create(s, id, "mbox", "modal_close_event_cb",
                            <<"close", "btns", "mbox">>, t)
        s3 == AddBtns(s2, id, <<0, 1, 2>>)
    IN  lv_group_focus_obj(s3, Item(id, 2))

create_reboot_msgbox(s, t) ==
    LET s1 == lv_obj_add_flag(s, MENU)
        id == Fresh(s1)
        s2 == lv_obj_create(s1, id, "mbox", "modal_close_event_cb",
                            <<"close", "btns", "mbox">>, t)
        s3 == AddBtns(s2, id, <<0, 1, 2>>)
    IN  lv_group_focus_obj(s3, Item(id, 2))

create_console_screen(s, t) ==
    LET s1 == hide_time_label(lv_obj_add_flag(s, MENU))
        id == Fresh(s1)
        s2 == lv_obj_create(s1, id, "console", "", <<"Exit">>, t)
        s3 == [s2 EXCEPT !.console_screen = id]
        s4 == lv_group_focus_obj(lv_group_add_obj(s3, Item(id, 0)), Item(id, 0))
        s5 == lv_timer_handler(s4)
    IN  system(s5, "/etc/init.d/S99fbterm start_with_input &")

create_game_screen(s, t) ==
    LET s1 == hide_time_label(lv_obj_add_flag(s, MENU))
        id == Fresh(s1)
        s2 == lv_obj_create(s1, id, "game", "", <<>>, t)
        s3 == [s2 EXCEPT !.console_screen = id]
        s4 == lv_timer_handler(s3)
    IN  system(s4, "/root/term_start_all.sh < /dev/null &")

settings_items == <<"Time Settings", "OTA Update", "Back">>
settings_items_old == <<"Time Settings", "Back">>

\* Variant of create_settings_screen that does not store the new list in
\* the settings_screen handle.
create_settings_screen_NoHandle(s, t) ==
    LET items == IF s.rev = OldRev THEN settings_items_old ELSE settings_items
        id == Fresh(s)
        s1 == lv_obj_create(s, id, "settings", "settings_screen_close_cb", items, t)
        s2 == AddBtns(s1, id, Idx(Len(items)))
    IN  lv_group_focus_obj(s2, Item(id, 0))

create_settings_screen(s, t) ==
    LET items == IF s.rev = OldRev THEN settings_items_old ELSE settings_items
        id == Fresh(s)
        s1 == lv_obj_create(s, id, "settings", "settings_screen_close_cb", items, t)
        s2 == [s1 EXCEPT !.settings_screen = id]
        s3 == AddBtns(s2, id, Idx(Len(items)))
    IN  lv_group_focus_obj(s3, Item(id, 0))

time_items == <<"Set time", "Second display", "12/24 Hour format", "Back">>
time_items_old == <<"Set time", "Timezone", "Display method", "12/24 Hour format", "Back">>

create_time_settings_screen(s, t) ==
    LET items == IF s.rev = OldRev THEN time_items_old ELSE time_items
        id == Fresh(s)
        s1 == lv_obj_create(s, id, "time_settings", "time_settings_screen_close_cb",
                            items, t)
        s2 == [s1 EXCEPT !.time_settings_screen = id]
        s3 == AddBtns(s2, id, Idx(Len(items)))
    IN  lv_group_focus_obj(s3, Item(id, 0))

\* Variant of create_generic_option_page that focuses child 0 of the list,
\* the title text, instead of the first option button.
create_generic_option_page_FocusTitle(s, title, options, event_cb, parent_to_hide, close_cb, t) ==
    LET s1 == IF parent_to_hide # NULL THEN lv_obj_add_flag(s, parent_to_hide) ELSE s
        page == Fresh(s1)
        s2 == lv_obj_create(s1, page, event_cb, close_cb, <<title>> \o options, t)
        s3 == AddBtns(s2, page, [k \in 1..Len(options) |-> k])
    IN  IF Len(s3.scr[page].children) > 0
        THEN lv_group_focus_obj(s3, Item(page, 0))
        ELSE s3

\* src/src/main.c: the page is local; child 0 of its list is the title text,
\* the option buttons are children 1.. and are the only group members.
create_generic_option_page(s, title, options, event_cb, parent_to_hide, close_cb, t) ==
    LET s1 == IF parent_to_hide # NULL THEN lv_obj_add_flag(s, parent_to_hide) ELSE s
        page == Fresh(s1)
        s2 == lv_obj_create(s1, page, event_cb, close_cb, <<title>> \o options, t)
        s3 == AddBtns(s2, page, [k \in 1..Len(options) |-> k])
    IN  IF Len(s3.scr[page].children) > 1
        THEN lv_group_focus_obj(s3, Item(page, 1))
        ELSE s3

\* src/main.c: screen_handle is &time_settings_screen at both call sites; the
\* handle is overwritten with the new page.
create_generic_option_page_old(s, title, options, event_cb, close_cb, t) ==
    LET parent_screen == s.time_settings_screen
        s1 == IF parent_screen # NULL THEN lv_obj_add_flag(s, parent_screen) ELSE s
        page == Fresh(s1)
        s2 == lv_obj_create(s1, page, event_cb, close_cb, <<title>> \o options, t)
        s3 == [s2 EXCEPT !.time_settings_screen = page]
        s4 == AddBtns(s3, page, [k \in 1..Len(options) |-> k])
    IN  IF Len(s4.scr[page].children) > 1
        THEN lv_group_focus_obj(s4, Item(page, 1))
        ELSE s4

create_show_seconds_page(s, t) ==
    IF s.rev = OldRev
    THEN create_generic_option_page_old(s, "Second Display", <<"On", "Off">>,
            "show_seconds_event_cb", "time_settings_screen_close_cb", t)
    ELSE create_generic_option_page(s, "Second Display", <<"On", "Off">>,
            "show_seconds_event_cb", s.time_settings_screen,
            "sub_page_close_event_cb", t)

create_hour_format_page(s, t) ==
    IF s.rev = OldRev
    THEN create_generic_option_page_old(s, "Time Format", <<"24 Hour", "12 Hour">>,
            "hour_format_event_cb", "time_settings_screen_close_cb", t)
    ELSE create_generic_option_page(s, "Time Format", <<"24 Hour", "12 Hour">>,
            "hour_format_event_cb", s.time_settings_screen,
            "sub_page_close_event_cb", t)

\* src/main.c only
create_timezone_page(s, t) ==
    LET s1 == lv_obj_add_flag(s, s.time_settings_screen)
        page == Fresh(s1)
        s2 == lv_obj_create(s1, page, "timezone", "time_settings_screen_close_cb",
                <<"UTC", "Asia/Shanghai", "America/New_York", "Europe/London", "Back">>, t)
        s3 == AddBtns(s2, page, Idx(5))
    IN  lv_group_focus_obj(s3, Item(page, 0))

\* Group order: hour_obj, minute_obj, save_btn, back_btn.
create_time_setter_page(s, t) ==
    LET s0 == lv_obj_add_flag(s, s.time_settings_screen)
        s1 == [s0 EXCEPT !.edit_hour = s.now.h, !.edit_minute = s.now.m]
        page == Fresh(s1)
        cb == IF s.rev = OldRev THEN "time_settings_screen_close_cb"
              ELSE "sub_page_close_event_cb"
        s2 == lv_obj_create(s1, page, "time_setter", cb,
                            <<"hour", "minute", "Save", "Back">>, t)
        s3 == AddBtns([s2 EXCEPT !.scr[page].text =
                                     <<D2(s1.edit_hour), D2(s1.edit_minute)>>],
                      page, Idx(4))
    IN  lv_group_focus_obj(s3, Item(page, 0))

create_ota_update_screen(s, t) ==
    LET s1 == system(s, "toggle_httpd.sh restart &")
        id == Fresh(s1)
        s2 == lv_obj_create(s1, id, "ota", "ota_screen_close_event_cb", <<"Back">>, t)
        s3 == [s2 EXCEPT !.ota_update_screen = id]
    IN  lv_group_focus_obj(lv_group_add_obj(s3, Item(id, 0)), Item(id, 0))

\* create_styled_list_btn + lv_obj_add_event_cb(btn, cb, LV_EVENT_CLICKED,
\* user_data) + lv_group_add_obj: the button is the last child of the list.
add_list_btn(s, id, text, user_data) ==
    LET idx == Len(s.scr[id].children)
        s1 == [s EXCEPT !.scr[id].children = Append(@, text),
                        !.scr[id].data = Append(@, user_data)]
    IN  lv_group_add_obj(s1, Item(id, idx))

\* lv_list_add_text(list, text): a label child, which joins no group.
lv_list_add_text(s, id, text) ==
    [s EXCEPT !.scr[id].children = Append(@, text),
              !.scr[id].data = Append(@, "")]

\* Variant of readdir_loop that makes a button for every entry, whatever
\* its d_type.
RECURSIVE readdir_loop_AllEntries(_, _, _)
readdir_loop_AllEntries(s, id, entries) ==
    IF entries = <<>> THEN s
    ELSE LET dir == Head(entries)
             s1 == Ev(s, dir.d_type, dir.d_name)
             s2 == add_list_btn(s1, id, dir.d_name, dir.d_name)
         IN  readdir_loop_AllEntries(s2, id, Tail(entries))

\* The readdir loop of create_nes_browser_screen: an entry whose d_type is
\* DT_REG gets a button whose user data is the strdup'ed copy of its name.
RECURSIVE readdir_loop(_, _, _)
readdir_loop(s, id, entries) ==
    IF entries = <<>> THEN s
    ELSE LET dir == Head(entries)
             s1 == Ev(s, dir.d_type, dir.d_name)
             s2 == IF dir.d_type = "DT_REG"
                   THEN add_list_btn(s1, id, dir.d_name, dir.d_name)
                   ELSE s1
         IN  readdir_loop(s2, id, Tail(entries))

\* Variant of create_nes_browser_screen that adds the placeholder of a
\* failed opendir as a button of the group.
create_nes_browser_screen_TextInGroup(s, t, d) ==
    LET id == Fresh(s)
        s1 == lv_obj_create(s, id, "nes_browser", "nes_browser_screen_close_cb",
                            <<>>, t)
        s2 == [s1 EXCEPT !.nes_browser_screen = id]
        s3 == add_list_btn(s2, id, "Back", "")
        s4 == IF d.ok
              THEN readdir_loop(Ev(s3, "opendir", "ok"), id, d.entries)
              ELSE add_list_btn(Ev(s3, "opendir", "failed"), id,
                                "Error: Cannot open dir", "")
    IN  lv_group_focus_obj(s4, Item(id, 0))

\* d: the outcome of opendir("/oem/nes_game") and the entries readdir
\* returns.  (The user data of Back, the list, is the argument NesBackClick
\* passes to generic_delete_obj_event_cb.)
create_nes_browser_screen(s, t, d) ==
    LET id == Fresh(s)
        s1 == lv_obj_create(s, id, "nes_browser", "nes_browser_screen_close_cb",
                            <<>>, t)
        s2 == [s1 EXCEPT !.nes_browser_screen = id]
        s3 == add_list_btn(s2, id, "Back", "")
        s4 == IF d.ok
              THEN readdir_loop(Ev(s3, "opendir", "ok"), id, d.entries)
              ELSE lv_list_add_text(Ev(s3, "opendir", "failed"), id,
                                    "Error: Cannot open dir")
    IN  lv_group_focus_obj(s4, Item(id, 0))

\* ---------------------------------------------------------- the handlers
\* t is the event target: the focused object that received the event.
main_menu_event_handler(s, t, dir, meminfo, info) ==
    LET text == lv_list_get_btn_text(s, t)
        s1 == IF text = "About"
              THEN create_about_screen(lv_obj_add_flag(s, MENU), t, meminfo, info)
              ELSE IF text = "Reboot" THEN create_reboot_msgbox(s, t)
              ELSE IF text = "Console" THEN create_console_screen(s, t)
              ELSE IF text = "Settings"
              THEN create_settings_screen(lv_obj_add_flag(s, MENU), t)
              ELSE s
    IN  IF text = "Start Game" THEN create_game_screen(s1, t)
        ELSE IF text = "NES Emulator"
        THEN create_nes_browser_screen(lv_obj_add_flag(s1, MENU), t, dir)
        ELSE s1

main_menu_event_handler_old(s, t, meminfo, info) ==
    LET text == lv_list_get_btn_text(s, t)
    IN  IF text = "About"
        THEN create_about_screen(lv_obj_add_flag(s, MENU), t, meminfo, info)
        ELSE IF text = "Reboot" THEN create_reboot_msgbox(s, t)
        ELSE IF text = "Console" THEN create_console_screen(s, t)
        ELSE IF text = "Settings"
        THEN create_settings_screen(lv_obj_add_flag(s, MENU), t)
        ELSE s

\* Variant of settings_menu_event_handler that opens Time Settings without
\* hiding the Settings list.
settings_menu_event_handler_NoHide(s, t) ==
    LET text == lv_list_get_btn_text(s, t)
    IN  IF text = "Time Settings"
        THEN create_time_settings_screen(s, t)
        ELSE IF text = "OTA Update"
        THEN create_ota_update_screen(lv_obj_add_flag(s, s.settings_screen), t)
        ELSE IF text = "Back" THEN lv_obj_del(s, s.settings_screen)
        ELSE s

settings_menu_event_handler(s, t) ==
    LET text == lv_list_get_btn_text(s, t)
    IN  IF text = "Time Settings"
        THEN create_time_settings_screen(lv_obj_add_flag(s, s.settings_screen), t)
        ELSE IF text = "OTA Update"
        THEN create_ota_update_screen(lv_obj_add_flag(s, s.settings_screen), t)
        ELSE IF text = "Back" THEN lv_obj_del(s, s.settings_screen)
        ELSE s

settings_menu_event_handler_old(s, t) ==
    LET text == lv_list_get_btn_text(s, t)
    IN  IF text = "Time Settings"
        THEN create_time_settings_screen(lv_obj_add_flag(s, s.settings_screen), t)
        ELSE IF text = "Back" THEN lv_obj_del(s, s.settings_screen)
        ELSE s

time_settings_menu_event_handler(s, t) ==
    LET text == lv_list_get_btn_text(s, t)
    IN  IF text = "Set time" THEN create_time_setter_page(s, t)
        ELSE IF text = "Second display" THEN create_show_seconds_page(s, t)
        ELSE IF text = "12/24 Hour format" THEN create_hour_format_page(s, t)
        ELSE IF text = "Back" THEN lv_obj_del(s, s.time_settings_screen)
        ELSE s

time_settings_menu_event_handler_old(s, t) ==
    LET text == lv_list_get_btn_text(s, t)
    IN  IF text = "Set time" THEN create_time_setter_page(s, t)
        ELSE IF text = "Timezone" THEN create_timezone_page(s, t)
        ELSE IF text = "Display method" THEN create_show_seconds_page(s, t)
        ELSE IF text = "12/24 Hour format" THEN create_hour_format_page(s, t)
        ELSE IF text = "Back" THEN lv_obj_del(s, s.time_settings_screen)
        ELSE s

about_screen_back_btn_event_handler(s) ==
    [lv_obj_del(s, s.about_screen) EXCEPT !.about_screen = NULL]

\* Variant of console_exit_event_handler that leaves the clock label hidden.
console_exit_event_handler_ClockHidden(s) ==
    LET s1 == system(s, "/etc/init.d/S99fbterm stop")
        s2 == IF s1.console_screen # NULL
              THEN [lv_obj_del(s1, s1.console_screen) EXCEPT !.console_screen = NULL]
              ELSE s1
        s3 == lv_group_focus_obj(lv_obj_clear_flag(s2, MENU), Item(MENU, 1))
    IN  lv_refr_now(s3)

console_exit_event_handler(s) ==
    LET s1 == system(s, "/etc/init.d/S99fbterm stop")
        s2 == IF s1.console_screen # NULL
              THEN [lv_obj_del(s1, s1.console_screen) EXCEPT !.console_screen = NULL]
              ELSE s1
        s3 == lv_group_focus_obj(lv_obj_clear_flag(s2, MENU), Item(MENU, 1))
        s4 == show_time_label(s3)
    IN  lv_refr_now(s4)

ota_screen_back_btn_event_handler(s) ==
    IF s.ota_update_screen # NULL
    THEN [lv_obj_del(s, s.ota_update_screen) EXCEPT !.ota_update_screen = NULL]
    ELSE s

\* A file name with a double quote in it, and the pieces of a file name:
\* each double quote is a piece of its own.
QuoteName == "b\"2.nes"
Pieces(name) == IF name = QuoteName THEN <<"b", "\"", "2.nes">> ELSE <<name>>

\* snprintf(command, sizeof(command), "/root/nes_start.sh \"/oem/nes_game/%s\" &",
\* filename), in pieces: blanks, double quotes and & are pieces of their own.
\* (A file name has at most 255 bytes: the command fits command[512].)
nes_command(filename) ==
    <<"/root/nes_start.sh", " ", "\"", "/oem/nes_game/">> \o Pieces(filename)
        \o <<"\"", " ", "&">>

RECURSIVE Join(_)
Join(pieces) == IF pieces = <<>> THEN "" ELSE Head(pieces) \o Join(Tail(pieces))

\* sh -c command: the words of the command line.  A double quote opens or
\* closes a quoted part, a blank outside quotes ends a word, an & outside
\* quotes ends the command; a quoted part that is not closed is a syntax
\* error and nothing is run.
RECURSIVE sh_words(_, _, _, _)
sh_words(pieces, quoted, word, words) ==
    LET done == IF word = <<>> THEN words ELSE Append(words, Join(word))
    IN  IF pieces = <<>>
        THEN (IF quoted THEN <<"sh: syntax error">> ELSE done)
        ELSE LET c == Head(pieces)
                 rest == Tail(pieces)
             IN  IF c = "\"" THEN sh_words(rest, ~quoted, word, words)
                 ELSE IF ~quoted /\ c = " " THEN sh_words(rest, quoted, <<>>, done)
                 ELSE IF ~quoted /\ c = "&" THEN done
                 ELSE sh_words(rest, quoted, Append(word, c), words)

\* user data: the strdup'ed file name of the entry.  The "argv" effect is
\* what the shell started by system() runs: the last word of the command.
nes_game_launch_event_handler(s, t) ==
    LET filename == s.scr[t.s].data[t.i + 1]
        command == nes_command(filename)
        s1 == Ev(s, "snprintf", filename)
        s2 == hide_time_label(lv_obj_add_flag(s1, MENU))
        s3 == IF s2.nes_browser_screen # NULL
              THEN lv_obj_add_flag(s2, s2.nes_browser_screen) ELSE s2
        s4 == lv_obj_create(s3, Fresh(s3), "transition", "", <<>>, t)
        s5 == lv_timer_handler(s4)
        s6 == system(s5, "/root/nes_start.sh \"/oem/nes_game/%s\" &")
        argv == sh_words(command, FALSE, <<>>, <<>>)
    IN  Ev(s6, "argv", argv[Len(argv)])

\* The keys the keypad hands to the focused object as LV_EVENT_KEY.
Keys == {"LV_KEY_UP", "LV_KEY_DOWN", "LV_KEY_LEFT", "LV_KEY_RIGHT", "LV_KEY_ENTER"}

\* Variant of time_value_adjust_event_cb whose DOWN does not wrap: it stops
\* at 0.
time_value_adjust_event_cb_NoWrap(s, t, key) ==
    LET is_hour == t.i = 0
        hour == IF key = "LV_KEY_UP" THEN (s.edit_hour + 1) % 24
                ELSE IF key = "LV_KEY_DOWN" /\ s.edit_hour > 0 THEN s.edit_hour - 1
                ELSE s.edit_hour
        minute == IF key = "LV_KEY_UP" THEN (s.edit_minute + 1) % 60
                  ELSE IF key = "LV_KEY_DOWN" /\ s.edit_minute > 0 THEN s.edit_minute - 1
                  ELSE s.edit_minute
        s1 == Ev(s, "key", key)
    IN  IF is_hour
        THEN Ev([s1 EXCEPT !.edit_hour = hour, !.scr[t.s].text[1] = D2(hour)],
                "set_text", "hour")
        ELSE Ev([s1 EXCEPT !.edit_minute = minute, !.scr[t.s].text[2] = D2(minute)],
                "set_text", "minute")

\* Variant of time_value_adjust_event_cb that steps both fields, whichever
\* is focused.
time_value_adjust_event_cb_BothFields(s, t, key) ==
    LET is_hour == t.i = 0
        hour == IF key = "LV_KEY_UP" THEN (s.edit_hour + 1) % 24
                ELSE IF key = "LV_KEY_DOWN" THEN (s.edit_hour - 1 + 24) % 24
                ELSE s.edit_hour
        minute == IF key = "LV_KEY_UP" THEN (s.edit_minute + 1) % 60
                  ELSE IF key = "LV_KEY_DOWN" THEN (s.edit_minute - 1 + 60) % 60
                  ELSE s.edit_minute
        s1 == Ev([s EXCEPT !.edit_hour = hour, !.edit_minute = minute], "key", key)
    IN  IF is_hour
        THEN Ev([s1 EXCEPT !.scr[t.s].text[1] = D2(hour)], "set_text", "hour")
        ELSE Ev([s1 EXCEPT !.scr[t.s].text[2] = D2(minute)], "set_text", "minute")

\* LV_EVENT_KEY on hour_obj (child 0) or minute_obj (child 1); user data:
\* the label of the field.
time_value_adjust_event_cb(s, t, key) ==
    LET is_hour == t.i = 0
        hour == IF key = "LV_KEY_UP" THEN (s.edit_hour + 1) % 24
                ELSE IF key = "LV_KEY_DOWN" THEN (s.edit_hour - 1 + 24) % 24
                ELSE s.edit_hour
        minute == IF key = "LV_KEY_UP" THEN (s.edit_minute + 1) % 60
                  ELSE IF key = "LV_KEY_DOWN" THEN (s.edit_minute - 1 + 60) % 60
                  ELSE s.edit_minute
        s1 == Ev(s, "key", key)
    IN  IF is_hour
        THEN Ev([s1 EXCEPT !.edit_hour = hour, !.scr[t.s].text[1] = D2(hour)],
                "set_text", "hour")
        ELSE Ev([s1 EXCEPT !.edit_minute = minute, !.scr[t.s].text[2] = D2(minute)],
                "set_text", "minute")

\* snprintf(command, sizeof(command), "date -s \"%02d:%02d:00\"", ...): 18
\* characters for values of two digits, within command[50].
date_command(hour, minute) ==
    "date -s \"" \o Join(D2(hour)) \o ":" \o Join(D2(minute)) \o ":00\""

\* Variant of time_save_event_cb that goes on only when date -s returned 0.
time_save_event_cb_OnlyOnSuccess(s, page) ==
    LET s0 == Ev(s, "snprintf", date_command(s.edit_hour, s.edit_minute))
        s1 == system(s0, "date -s")
        s2 == system(s1, "hwclock -w")
        s3 == time_update_task(s2)
    IN  IF s1.status = 0 THEN generic_delete_obj_event_cb(s3, page) ELSE s1

\* Variant of time_save_event_cb whose command carries the current time
\* instead of the edited one.
time_save_event_cb_StaleTime(s, page) ==
    LET s0 == Ev(s, "snprintf", date_command(s.now.h, s.now.m))
        s1 == system(s0, "date -s")
        s2 == system(s1, "hwclock -w")
        s3 == time_update_task(s2)
    IN  generic_delete_obj_event_cb(s3, page)

\* user data: the page
time_save_event_cb(s, page) ==
    LET s0 == Ev(s, "snprintf", date_command(s.edit_hour, s.edit_minute))
        s1 == system(s0, "date -s")
        s2 == system(s1, "hwclock -w")
        s3 == time_update_task(s2)
    IN  generic_delete_obj_event_cb(s3, page)

\* Variant of show_seconds_event_cb that deletes the page before it
\* re-renders the clock label.
show_seconds_event_cb_LabelAfterDelete(s, t) ==
    LET page == t.s
        text == lv_list_get_btn_text(s, t)
        s1 == Ev([s EXCEPT !.show_seconds = (text = "On")], "set", "show_seconds")
        s2 == save_preferences(s1)
        s3 == IF page # NULL THEN lv_obj_del(s2, page) ELSE s2
    IN  time_update_task(s3)

\* Variant of show_seconds_event_cb that also puts the hour format back to
\* its default.
show_seconds_event_cb_ResetsFormat(s, t) ==
    LET page == t.s
        text == lv_list_get_btn_text(s, t)
        s1 == Ev([s EXCEPT !.show_seconds = (text = "On"), !.is_24_hour_format = TRUE],
                 "set", "show_seconds")
        s2 == save_preferences(s1)
        s3 == time_update_task(s2)
    IN  IF page # NULL THEN lv_obj_del(s3, page) ELSE s3

show_seconds_event_cb(s, t) ==
    LET page == t.s
        text == lv_list_get_btn_text(s, t)
        s1 == Ev([s EXCEPT !.show_seconds = (text = "On")], "set", "show_seconds")
        s2 == save_preferences(s1)
        s3 == time_update_task(s2)
    IN  IF page # NULL THEN lv_obj_del(s3, page) ELSE s3

\* Variant of hour_format_event_cb that does not call save_preferences.
hour_format_event_cb_NoSave(s, t) ==
    LET page == t.s
        text == lv_list_get_btn_text(s, t)
        s1 == Ev([s EXCEPT !.is_24_hour_format = (text = "24 Hour")],
                 "set", "is_24_hour_format")
        s3 == time_update_task(s1)
    IN  IF page # NULL THEN lv_obj_del(s3, page) ELSE s3

hour_format_event_cb(s, t) ==
    LET page == t.s
        text == lv_list_get_btn_text(s, t)
        s1 == Ev([s EXCEPT !.is_24_hour_format = (text = "24 Hour")],
                 "set", "is_24_hour_format")
        s2 == save_preferences(s1)
        s3 == time_update_task(s2)
    IN  IF page # NULL THEN lv_obj_del(s3, page) ELSE s3

timezone_select_event_handler(s, page) ==
    generic_delete_obj_event_cb(system(s, "ln -sf"), page)

\* Variant of reboot_msgbox_event_handler that reboots whichever button
\* was activated.
reboot_msgbox_event_handler_AnyButton(s, mbox) ==
    system(s, "reboot")

\* LV_EVENT_VALUE_CHANGED of the button matrix, bubbled to the message box
reboot_msgbox_event_handler(s, mbox) ==
    LET btn_text == reboot_btns(s)[s.btn_id_sel + 1]
    IN  IF btn_text = "Confirm" THEN system(s, "reboot")
        ELSE lv_obj_del(s, mbox)

\* the close button of the message box: lv_msgbox_close
lv_msgbox_close(s, mbox) == lv_obj_del(s, mbox)

\* LV_KEY_RIGHT / LV_KEY_LEFT on the focused button matrix
lv_btnmatrix_key(s, dir) ==
    LET n == Len(reboot_btns(s))
    IN  [s EXCEPT !.btn_id_sel = (s.btn_id_sel + n + dir) % n]

\* ------------------------------------------------------------- start-up
\* main() up to the poll loop.
main(r, w, f, tm) ==
    LET s0 == [rev |-> r, writable |-> w, prefs |-> f,
               scr |-> [j \in ScrIds |-> FreeScr], grp |-> <<>>,
               focus |-> NoItem, btn_id_sel |-> 0, time_label |-> NULL,
               time_label_hidden |-> FALSE, time_label_text |-> <<>>,
               now |-> tm,
               about_screen |-> NULL, console_screen |-> NULL,
               settings_screen |-> NULL, time_settings_screen |-> NULL,
               ota_update_screen |-> NULL, nes_browser_screen |-> NULL,
               show_seconds |-> TRUE, is_24_hour_format |-> TRUE,
               edit_hour |-> 0, edit_minute |-> 0,
               trace |-> <<>>, created |-> NULL, closed |-> NoClosed,
               ub |-> FALSE, already_running |-> FALSE, overflow |-> FALSE,
               terminates |-> TRUE, succeeds |-> TRUE, status |-> 0,
               blocked |-> FALSE, frozen |-> <<>>, services |-> NoServices]
        s1 == load_preferences(s0)
        s2 == Ev([s1 EXCEPT !.time_label = TIME_LABEL], "create", "time_label")
    IN  create_main_menu(time_update_task(s2))

\* The hand-off of a handler's result to the next state: the state in which
\* the handler returned, or the state in which it waits inside system().
CommitMain(h) ==
    LET s == IF h.blocked THEN h.frozen[1] ELSE h
    IN  /\ ~blocked
        /\ ~s.overflow
        /\ blocked' = h.blocked
        /\ first_run' = first_run
        /\ rev' = s.rev
        /\ writable' = s.writable
        /\ prefs' = s.prefs
        /\ scr' = s.scr
        /\ grp' = s.grp
        /\ focus' = s.focus
        /\ btn_id_sel' = s.btn_id_sel
        /\ time_label' = s.time_label
        /\ time_label_hidden' = s.time_label_hidden
        /\ time_label_text' = s.time_label_text
        /\ now' = s.now
        /\ about_screen' = s.about_screen
        /\ console_screen' = s.console_screen
        /\ settings_screen' = s.settings_screen
        /\ time_settings_screen' = s.time_settings_screen
        /\ ota_update_screen' = s.ota_update_screen
        /\ nes_browser_screen' = s.nes_browser_screen
        /\ show_seconds' = s.show_seconds
        /\ is_24_hour_format' = s.is_24_hour_format
        /\ edit_hour' = s.edit_hour
        /\ edit_minute' = s.edit_minute
        /\ trace' = s.trace
        /\ created' = s.created
        /\ closed' = s.closed
        /\ ub' = s.ub
        /\ pushOnly' = ( /\ pushOnly
                         /\ s.closed = NoClosed
                         /\ \A k \in 1..Len(s.trace) :
                                s.trace[k] \notin {<<"create", "game">>,
                                                   <<"create", "transition">>} )

\* The program alone: the services are not followed.
CommitOne(h) == CommitMain(h) /\ services' = services /\ keys' = keys

\* One run: the second run stays where it started.
Commit(h) == CommitOne(h) /\ twin' = twin

\* The local time at startup, in the morning and in the afternoon.
BootTimes == {[h |-> 0, m |-> 5, s |-> 9], [h |-> 13, m |-> 40, s |-> 59]}

\* The state in which the poll loop starts, for a startup at one of the
\* given times.
InitAt(times) ==
    \E r \in Revisions, w \in BOOLEAN, f \in PrefFiles, tm \in times :
        LET s == main(r, w, f, tm)
        IN  /\ rev = s.rev
            /\ writable = s.writable
            /\ prefs = s.prefs
            /\ scr = s.scr
            /\ grp = s.grp
            /\ focus = s.focus
            /\ btn_id_sel = s.btn_id_sel
            /\ time_label = s.time_label
            /\ time_label_hidden = s.time_label_hidden
            /\ time_label_text = s.time_label_text
            /\ now = s.now
            /\ about_screen = s.about_screen
            /\ console_screen = s.console_screen
            /\ settings_screen = s.settings_screen
            /\ time_settings_screen = s.time_settings_screen
            /\ ota_update_screen = s.ota_update_screen
            /\ nes_browser_screen = s.nes_browser_screen
            /\ show_seconds = s.show_seconds
            /\ is_24_hour_format = s.is_24_hour_format
            /\ edit_hour = s.edit_hour
            /\ edit_minute = s.edit_minute
            /\ trace = s.trace
            /\ created = NULL
            /\ closed = s.closed
            /\ ub = s.ub
            /\ pushOnly = TRUE
            /\ blocked = FALSE
            /\ first_run = ~f.exists
            /\ services = NoServices
            /\ keys = 0

\* The second run starts in the state of the first.
Init == InitAt(BootTimes) /\ twin = Cur

\* ------------------------------------------------------------ poll loop
\* One lv_timer_handler() call of the poll loop that reads one key.
InLoop == [Cur EXCEPT !.already_running = TRUE]

\* The kind of screen the focused object is on.
FocusKind == IF focus.s \in ScrIds THEN scr[focus.s].kind ELSE "none"

\* LV_KEY_ENTER on the focused object: the handler of its LV_EVENT_CLICKED
\* (VALUE_CHANGED for the button matrix) starts.  term: whether the commands
\* the handler waits for terminate.
Activate(label, term) ==
    Ev(Ev([InLoop EXCEPT !.terminates = term], "on", FocusKind), "activate", label)

\* /oem/nes_game: absent, or "." and ".." and up to MaxRoms further entries,
\* each a regular file or a subdirectory, in the order readdir returns them.
\* The second name has a double quote in it.
RomNames == [k \in 1..MaxRoms |-> IF k = 2 THEN QuoteName ELSE ToString(k) \o ".nes"]
DTypes == {"DT_REG", "DT_DIR"}
Dots == <<[d_name |-> ".", d_type |-> "DT_DIR"], [d_name |-> "..", d_type |-> "DT_DIR"]>>
Dirs ==
    {[ok |-> FALSE, entries |-> <<>>]}
        \cup UNION {{[ok |-> TRUE,
                      entries |-> Dots \o [k \in 1..n |->
                                     [d_name |-> RomNames[k], d_type |-> ty[k]]]] :
                        ty \in [1..n -> DTypes]} : n \in 0..MaxRoms}

\* LV_KEY_NEXT / LV_KEY_PREV
KeyNext == Len(grp) > 0 /\ Commit(FocusMove(InLoop, 1))
KeyPrev == Len(grp) > 0 /\ Commit(FocusMove(InLoop, -1))

\* LV_KEY_RIGHT / LV_KEY_LEFT while the button matrix is focused
KeyRight == FocusKind = "mbox" /\ focus.i = 1 /\ Commit(lv_btnmatrix_key(InLoop, 1))
KeyLeft == FocusKind = "mbox" /\ focus.i = 1 /\ Commit(lv_btnmatrix_key(InLoop, -1))

\* The text of the focused button (the name of a focused object that is
\* not a list button).
ClickLabel == lv_list_get_btn_text(Cur, focus)

\* The files an activation reads: all of them when the focused item is the
\* one whose screen reads them, else one (it is not read).
ReadBy(label, files) ==
    IF ClickLabel = label THEN files ELSE {CHOOSE f \in files : TRUE}

\* LV_KEY_ENTER: LV_EVENT_CLICKED on the focused object
MainMenuClick ==
    /\ FocusKind = "menu"
    /\ \E meminfo \in ReadBy("About", MemInfos), info \in ReadBy("About", InfoFiles) :
          IF rev = OldRev
          THEN Commit(main_menu_event_handler_old(Activate(ClickLabel, TRUE), focus,
                                                  meminfo, info))
          ELSE \E dir \in ReadBy("NES Emulator", Dirs) :
                  Commit(main_menu_event_handler(Activate(ClickLabel, TRUE), focus,
                                                 dir, meminfo, info))

SettingsClick ==
    /\ FocusKind = "settings"
    /\ IF rev = OldRev
       THEN Commit(settings_menu_event_handler_old(Activate(ClickLabel, TRUE), focus))
       ELSE Commit(settings_menu_event_handler(Activate(ClickLabel, TRUE), focus))

TimeSettingsClick ==
    /\ FocusKind = "time_settings"
    /\ IF rev = OldRev
       THEN Commit(time_settings_menu_event_handler_old(Activate(ClickLabel, TRUE), focus))
       ELSE Commit(time_settings_menu_event_handler(Activate(ClickLabel, TRUE), focus))

AboutBackClick ==
    /\ FocusKind = "about"
    /\ Commit(about_screen_back_btn_event_handler(Activate(ClickLabel, TRUE)))

ConsoleExitClick ==
    /\ FocusKind = "console"
    /\ \E term \in BOOLEAN :
          Commit(console_exit_event_handler(Activate(ClickLabel, term)))

OtaBackClick ==
    /\ FocusKind = "ota"
    /\ Commit(ota_screen_back_btn_event_handler(Activate(ClickLabel, TRUE)))

NesBackClick ==
    /\ FocusKind = "nes_browser" /\ focus.i = 0
    /\ Commit(generic_delete_obj_event_cb(Activate(ClickLabel, TRUE), focus.s))

NesGameClick ==
    /\ FocusKind = "nes_browser" /\ focus.i > 0
    /\ Commit(nes_game_launch_event_handler(Activate(ClickLabel, TRUE), focus))

TimeSaveClick ==
    /\ FocusKind = "time_setter" /\ focus.i = 2
    /\ \E term, ok \in BOOLEAN :
          Commit(time_save_event_cb(
                    [Activate(ClickLabel, term) EXCEPT !.succeeds = ok], focus.s))

TimeSetterBackClick ==
    /\ FocusKind = "time_setter" /\ focus.i = 3
    /\ Commit(generic_delete_obj_event_cb(Activate(ClickLabel, TRUE), focus.s))

ShowSecondsClick ==
    /\ FocusKind = "show_seconds_event_cb"
    /\ Commit(show_seconds_event_cb(Activate(ClickLabel, TRUE), focus))

HourFormatClick ==
    /\ FocusKind = "hour_format_event_cb"
    /\ Commit(hour_format_event_cb(Activate(ClickLabel, TRUE), focus))

TimezoneSelectClick ==
    /\ FocusKind = "timezone" /\ focus.i < 4
    /\ \E term \in BOOLEAN :
          Commit(timezone_select_event_handler(Activate(ClickLabel, term), focus.s))

TimezoneBackClick ==
    /\ FocusKind = "timezone" /\ focus.i = 4
    /\ Commit(generic_delete_obj_event_cb(Activate(ClickLabel, TRUE), focus.s))

\* The close button of the message box.
MsgboxCloseClick ==
    /\ FocusKind = "mbox" /\ focus.i = 0
    /\ Commit(lv_msgbox_close(Activate(ClickLabel, TRUE), focus.s))

\* A button of the button matrix: LV_EVENT_VALUE_CHANGED bubbles to the box.
MsgboxBtnClick ==
    /\ FocusKind = "mbox" /\ focus.i = 1
    /\ \E term \in BOOLEAN :
          Commit(reboot_msgbox_event_handler(
                    Activate(reboot_btns(Cur)[btn_id_sel + 1], term), focus.s))

\* the 1000 ms timer created in main
TimerTick == time_label_text # <<>> /\ Commit(time_update_task(InLoop))

Next ==
    \/ KeyNext \/ KeyPrev \/ KeyRight \/ KeyLeft
    \/ MainMenuClick \/ SettingsClick \/ TimeSettingsClick
    \/ AboutBackClick \/ ConsoleExitClick \/ OtaBackClick
    \/ NesBackClick \/ NesGameClick
    \/ TimeSaveClick \/ TimeSetterBackClick
    \/ ShowSecondsClick \/ HourFormatClick
    \/ TimezoneSelectClick \/ TimezoneBackClick
    \/ MsgboxCloseClick \/ MsgboxBtnClick
    \/ TimerTick

Spec == Init /\ [][Next]_vars

\* ------------------------------------------------------------ properties
AliveNow == {id \in ScrIds : scr[id].kind # "free"}
Visible(id) == id \in AliveNow /\ ~scr[id].hidden
FocusLabel == IF focus.s \in AliveNow THEN scr[focus.s].children[focus.i + 1] ELSE ""

\* The screen and its owners, the screen first.
RECURSIVE OwnerPath(_, _)
OwnerPath(id, n) ==
    IF id \notin AliveNow \/ n = 0 THEN <<>>
    ELSE <<id>> \o OwnerPath(scr[id].owner, n - 1)

\* Index of the first effect of the last handler with the given name and
\* argument (0: none).
First(what, arg) ==
    LET ks == {k \in 1..Len(trace) : trace[k] = <<what, arg>>}
    IN  IF ks = {} THEN 0 ELSE CHOOSE k \in ks : \A j \in ks : k <= j
FirstOf(what) ==
    LET ks == {k \in 1..Len(trace) : trace[k][1] = what}
    IN  IF ks = {} THEN 0 ELSE CHOOSE k \in ks : \A j \in ks : k <= j

\* C1: the focused item never belongs to a screen that carries the hidden
\* flag.
C1_FocusOnVisibleScreen ==
    focus # NoItem => Visible(focus.s)

\* C2: after navigate-in activations only, exactly one screen is active
\* (shown and holding the focus), no other screen is shown, and its owners
\* up to the main menu all exist and carry the hidden flag.
C2_PushKeepsOwnersHidden ==
    pushOnly =>
        /\ Cardinality({id \in AliveNow : Visible(id)}) = 1
        /\ Visible(focus.s)
        /\ LET path == OwnerPath(focus.s, MaxScr)
           IN  /\ path[Len(path)] = MENU
               /\ \A k \in 2..Len(path) : scr[path[k]].hidden
        /\ \A id \in AliveNow : id = MENU \/ scr[id].owner \in AliveNow

\* C2 witness: three navigate-ins deep, on the time setter
C2_Witness ==
    /\ pushOnly
    /\ FocusKind = "time_setter"
    /\ Len(OwnerPath(focus.s, MaxScr)) = 4

\* C3: while an opened screen exists its owner carries the hidden flag, and
\* in the step that destroys the screen the owner becomes visible.
C3_OwnerUnhiddenExactlyAtDestroy ==
    [][\A id \in AliveNow :
          scr[id].owner # NULL =>
              IF scr'[id].kind # "free"
              THEN scr'[scr[id].owner].hidden
              ELSE /\ scr'[scr[id].owner].kind # "free"
                   /\ ~scr'[scr[id].owner].hidden]_vars

\* C4: after a close the owner of the closed screen is the active screen.
C4_CloseActivatesOwner ==
    closed # NoClosed =>
        /\ Visible(closed.owner)
        /\ focus.s = closed.owner

\* C5: closing a screen opened from the main menu leaves the main menu
\* active with the focus on the item that opened it.
C5_MenuFocusReturnsToOpener ==
    (closed # NoClosed /\ closed.owner = MENU) =>
        /\ Visible(MENU)
        /\ focus = Item(MENU, closed.from)

\* C6: closing a screen opened from item i of the Settings list or of the
\* Time Settings list returns the focus to item i of that list.
C6_ListFocusReturnsToOpener ==
    (closed # NoClosed /\ closed.owner \in AliveNow
        /\ scr[closed.owner].kind \in {"settings", "time_settings"}) =>
        /\ Visible(closed.owner)
        /\ focus = Item(closed.owner, closed.from)

\* C7: the allocated screens form one chain from the main menu to the
\* shown screen: every screen but the main menu has an allocated owner, no
\* two screens share an owner, and only the end of the chain is shown.
C7_SingleChain ==
    /\ \A id \in AliveNow \ {MENU} : scr[id].owner \in AliveNow
    /\ \A a, b \in AliveNow \ {MENU} : a # b => scr[a].owner # scr[b].owner
    /\ \A id \in AliveNow :
          Visible(id) <=> ~\E c \in AliveNow : scr[c].owner = id

\* The item a new screen of the given kind is meant to focus first.
DesignatedLabel(kind) ==
    CASE kind = "settings" -> "Time Settings"
      [] kind = "time_settings" -> "Set time"
      [] kind = "show_seconds_event_cb" -> "On"
      [] kind = "hour_format_event_cb" -> "24 Hour"
      [] kind = "time_setter" -> "hour"
      [] kind = "timezone" -> "UTC"
      [] kind = "about" -> "Back"
      [] kind = "ota" -> "Back"
      [] kind = "nes_browser" -> "Back"
      [] kind = "console" -> "Exit"
      [] kind = "mbox" -> "mbox"
      [] OTHER -> ""

\* C8: right after a navigate-in the focus is on the designated initial
\* item of the new screen, not on an item of the previous screen.
C8_InitialFocus ==
    (created # NULL /\ scr[created].kind \notin {"game", "transition"}) =>
        /\ focus.s = created
        /\ FocusLabel = DesignatedLabel(scr[created].kind)

\* C8 witness: an option page was opened and its first option is focused
C8_Witness ==
    /\ created # NULL
    /\ rev = NewRev
    /\ scr[created].kind = "show_seconds_event_cb"
    /\ focus = Item(created, 1)

\* C9: a handler that applies an effect and closes its page has changed the
\* flag, written the preferences and re-rendered the clock label before it
\* deletes the page and un-hides a screen; afterwards the label shows the
\* format the flags select.  (Save: once date and hwclock have returned.)
C9_EffectBeforeClose ==
    LET set == FirstOf("set")
        date == First("system", "date -s")
        label == First("label", format_str(is_24_hour_format, show_seconds))
    IN  /\ set # 0 =>
              /\ set < FirstOf("save")
              /\ FirstOf("save") < label
              /\ label < FirstOf("del")
              /\ FirstOf("del") < FirstOf("unhide")
              /\ time_label_text =
                    strftime(format_str(is_24_hour_format, show_seconds), now)
              /\ writable =>
                    prefs = [exists |-> TRUE,
                             SHOW_SECONDS |-> IF show_seconds THEN 1 ELSE 0,
                             IS_24_HOUR |-> IF is_24_hour_format THEN 1 ELSE 0]
        /\ (date # 0 /\ ~blocked) =>
              /\ date < First("system", "hwclock -w")
              /\ First("system", "hwclock -w") < label
              /\ label < FirstOf("del")
              /\ FirstOf("del") < FirstOf("unhide")
              /\ time_label_text =
                    strftime(format_str(is_24_hour_format, show_seconds), now)

\* C9 witness: Off was selected on the seconds page; the page is gone and
\* the clock label is in the format without seconds
C9_Witness ==
    /\ First("set", "show_seconds") # 0
    /\ closed.kind = "show_seconds_event_cb"
    /\ ~show_seconds
    /\ time_label_text = strftime(format_str(is_24_hour_format, FALSE), now)

LaunchCommands ==
    {"/etc/init.d/S99fbterm start_with_input &",
     "/root/term_start_all.sh < /dev/null &",
     "/root/nes_start.sh \"/oem/nes_game/%s\" &"}

\* C10: a hand-off hides the menu and the clock, then renders and flushes
\* one frame, and only then issues the launch command.
C10_FrameBeforeLaunch ==
    \A k \in 1..Len(trace) :
        (trace[k][1] = "system" /\ trace[k][2] \in LaunchCommands) =>
            \E j \in 1..(k - 1) :
                /\ trace[j] = <<"flush", "">>
                /\ First("hide", "menu") \in 1..(j - 1)
                /\ First("hide", "time_label") \in 1..(j - 1)
                /\ FirstOf("create") \in 1..(j - 1)

\* C11: no handler waits for an external command: after every activation
\* the handler has returned and the poll loop goes on, also when the
\* command it started never terminates.
C11_NeverWaitsForCommand == ~blocked

\* The global handle a handler of the given kind of screen works on.
HandleOf(kind) ==
    CASE kind = "settings" -> settings_screen
      [] kind = "time_settings" -> time_settings_screen
      [] kind = "about" -> about_screen
      [] kind = "console" -> console_screen
      [] kind = "ota" -> ota_update_screen
      [] kind = "nes_browser" -> nes_browser_screen
      [] kind = "menu" -> MENU
      [] OTHER -> focus.s

\* The screen the delete callback of the focused screen un-hides, by the
\* handle the callback reads, and the kind of screen it takes it to be.
RestoredBy(cb) ==
    CASE cb \in {"modal_close_event_cb", "settings_screen_close_cb",
                 "nes_browser_screen_close_cb"} -> [h |-> MENU, kind |-> "menu"]
      [] cb \in {"time_settings_screen_close_cb", "ota_screen_close_event_cb"} ->
            [h |-> settings_screen, kind |-> "settings"]
      [] cb = "sub_page_close_event_cb" ->
            [h |-> time_settings_screen, kind |-> "time_settings"]
      [] OTHER -> [h |-> MENU, kind |-> "menu"]

\* C12: no handler or close callback works on a handle that is null, names
\* a deleted object or names another screen than the one it is meant for;
\* every close has a living owner and un-hides a screen.
C12_HandlesNameTheirScreens ==
    /\ ~ub
    /\ focus.s \in AliveNow =>
          /\ HandleOf(scr[focus.s].kind) = focus.s
          /\ LET r == RestoredBy(scr[focus.s].close_cb)
             IN  /\ r.h \in AliveNow
                 /\ scr[r.h].kind = r.kind
    /\ closed # NoClosed =>
          /\ closed.owner \in AliveNow
          /\ FirstOf("del") < FirstOf("unhide")

\* C12 witness: a sub-page was closed and its callback un-hid a screen
\* through a global handle
C12_Witness ==
    /\ closed.kind \in {"show_seconds_event_cb", "time_setter"}
    /\ First("unhide", "time_settings") # 0 \/ First("unhide", "settings") # 0

\* The three kinds of effect of an activation: navigate-in, external
\* action, close.
Effects == {"create", "system", "del"}

\* C13: the activation of an item of the main menu, of the Settings list or
\* of the Time Settings list has exactly one effect: it opens a screen, or
\* issues an external command, or closes the list.
C13_ExactlyOneEffect ==
    (/\ Len(trace) >= 2
     /\ trace[1][1] = "on"
     /\ trace[1][2] \in {"menu", "settings", "time_settings"}) =>
        Cardinality({w \in Effects : FirstOf(w) # 0}) = 1

\* C14: reboot is issued only by the Confirm button of the open Reboot
\* dialog; any other button and the close button close the dialog without
\* a reboot and return to the main menu.
C14_RebootOnlyOnConfirm ==
    /\ First("system", "reboot") # 0 =>
          /\ trace[1] = <<"on", "mbox">>
          /\ trace[2] = <<"activate", "Confirm">>
          /\ \E id \in AliveNow : scr[id].kind = "mbox"
    /\ (/\ Len(trace) >= 2
        /\ trace[1] = <<"on", "mbox">>
        /\ trace[2] # <<"activate", "Confirm">>) =>
          /\ First("system", "reboot") = 0
          /\ closed.kind = "mbox"
          /\ ~\E id \in AliveNow : scr[id].kind = "mbox"
          /\ Visible(MENU)
          /\ FocusKind = "menu"

\* C14 witness: Confirm was activated and reboot was issued
C14_Witness ==
    /\ First("system", "reboot") # 0
    /\ FocusKind = "mbox"

\* C15: while the Reboot dialog exists the focus is on the dialog (on the
\* box, its button matrix or its close button), whatever navigation keys
\* were pressed; the main-menu buttons stay in the group.
C15_DialogTrapsFocus ==
    \A id \in AliveNow :
        scr[id].kind = "mbox" =>
            /\ focus.s = id
            /\ \E k \in 1..Len(grp) : grp[k].s = MENU

\* C15 witness: navigation keys have moved the focus within the open dialog
C15_Witness ==
    /\ FocusKind = "mbox"
    /\ focus.i = 0
    /\ trace = <<>>

\* C16: when the Exit handler of the console has returned, the console
\* screen is deleted and its handle is null, nothing of it is left in the
\* group, the main menu and the clock label are shown, the focus is on the
\* Console item, and fbterm was stopped before the menu was un-hidden.
C16_ConsoleCleanExit ==
    (/\ Len(trace) >= 2
     /\ trace[1] = <<"on", "console">>
     /\ ~blocked) =>
        /\ closed.kind = "console"
        /\ closed.owner = MENU
        /\ console_screen = NULL
        /\ ~\E id \in AliveNow : scr[id].kind = "console"
        /\ \A k \in 1..Len(grp) : grp[k].s \in AliveNow
        /\ Visible(MENU)
        /\ ~time_label_hidden
        /\ focus = Item(MENU, closed.from)
        /\ FocusLabel = "Console"
        /\ First("system", "/etc/init.d/S99fbterm stop") # 0
        /\ First("system", "/etc/init.d/S99fbterm stop") < First("unhide", "menu")
        /\ First("system", "/etc/init.d/S99fbterm stop") < First("unhide", "time_label")

\* C16 witness: Exit was activated on the console screen and returned
C16_Witness ==
    /\ closed.kind = "console"
    /\ focus = Item(MENU, 1)
    /\ ~blocked

\* ------------------------------------------- preferences, function by function
\* save_preferences and load_preferences applied in any order to any flag
\* values, from every startup state; trace is kept over the steps.
MaxPrefsOps == 5

Keep == [Cur EXCEPT !.trace = trace]

PrefsOps == Cardinality({k \in 1..Len(trace) : trace[k][1] \in {"save", "load", "set"}})

FlagsStr(a, b) == (IF a THEN "1" ELSE "0") \o (IF b THEN "1" ELSE "0")

PrefsSave == PrefsOps < MaxPrefsOps /\ Commit(save_preferences(Keep))

PrefsLoad == PrefsOps < MaxPrefsOps /\ Commit(load_preferences(Keep))

\* an assignment to the two flags, as the option handlers make them
PrefsSet ==
    /\ PrefsOps < MaxPrefsOps
    /\ \E a, b \in BOOLEAN :
          Commit(Ev([Keep EXCEPT !.show_seconds = a, !.is_24_hour_format = b],
                    "set", FlagsStr(a, b)))

NextPrefs == PrefsSave \/ PrefsLoad \/ PrefsSet

SpecPrefs == Init /\ [][NextPrefs]_vars

\* C17: a load that follows a successful save of the flag values (a, b)
\* restores exactly (a, b), whatever the flags were set to in between, and
\* loading once more changes nothing.
C17_SaveLoadRoundTrip ==
    LET n == Len(trace)
    IN  (n > 0 /\ trace[n] = <<"load", "ok">>) =>
            /\ load_preferences(Cur).show_seconds = show_seconds
            /\ load_preferences(Cur).is_24_hour_format = is_24_hour_format
            /\ \A i, j \in 1..n :
                  (/\ i < j
                   /\ trace[i][1] = "set"
                   /\ \A k \in (i + 1)..(j - 1) : trace[k][1] \notin {"set", "load"}
                   /\ trace[j] = <<"save", "ok">>
                   /\ \A k \in (j + 1)..n : trace[k] # <<"save", "ok">>) =>
                      FlagsStr(show_seconds, is_24_hour_format) = trace[i][2]

\* C17 witness: (off, 12-hour) was saved, the flags were then set to
\* (on, 24-hour), and a load brought (off, 12-hour) back
C17_Witness ==
    LET n == Len(trace)
    IN  /\ n >= 6
        /\ trace[n] = <<"load", "ok">>
        /\ trace[n - 1] = <<"set", "11">>
        /\ trace[n - 2] = <<"save", "ok">>
        /\ trace[n - 5] = <<"set", "00">>
        /\ ~show_seconds
        /\ ~is_24_hour_format

\* C18: with a writable preferences file that was absent at startup, the
\* file holds the in-memory flags whenever a handler has returned; every
\* assignment to a flag is followed by save_preferences in the same
\* handler; load_preferences runs at startup only.
C18_FileTracksFlags ==
    /\ (writable /\ first_run) =>
          prefs = [exists |-> TRUE,
                   SHOW_SECONDS |-> IF show_seconds THEN 1 ELSE 0,
                   IS_24_HOUR |-> IF is_24_hour_format THEN 1 ELSE 0]
    /\ FirstOf("set") # 0 => FirstOf("set") < FirstOf("save")
    /\ FirstOf("load") # 0 => First("create", "menu") # 0

\* C18 witness: first run, then 12 Hour was selected and written
C18_Witness ==
    /\ writable
    /\ first_run
    /\ closed.kind = "hour_format_event_cb"
    /\ ~is_24_hour_format
    /\ prefs.IS_24_HOUR = 0

\* C19: when the preferences file is absent at startup, the program enters
\* the poll loop with both flags at their defaults (true, true); the file
\* has been created with these defaults if it can be created, and if not,
\* startup completes all the same: the menu is shown and focused and the
\* clock is rendered with the default format.
C19_DefaultsWhenAbsent ==
    (first_run /\ First("create", "menu") # 0) =>
        /\ First("load", "absent") # 0
        /\ show_seconds
        /\ is_24_hour_format
        /\ writable =>
              /\ First("save", "ok") # 0
              /\ prefs = [exists |-> TRUE, SHOW_SECONDS |-> 1, IS_24_HOUR |-> 1]
        /\ ~writable =>
              /\ First("save", "failed") # 0
              /\ prefs = NoFile
        /\ Visible(MENU)
        /\ focus = Item(MENU, 0)
        /\ time_label_text = strftime(format_str(TRUE, TRUE), now)
        /\ ~ub
        /\ ~blocked

\* C19 witness: startup without a preferences file that cannot be created
C19_Witness ==
    /\ first_run
    /\ ~writable
    /\ First("load", "absent") # 0
    /\ First("create", "menu") # 0
    /\ focus = Item(MENU, 0)

\* ------------------------------------------------ the clock, at every time
\* time_update_task at every time of day and with every flag combination:
\* startup at any full minute, the 1000 ms timer, and changes of the flags.
Tick(tm) ==
    IF tm.s < 59 THEN [tm EXCEPT !.s = @ + 1]
    ELSE IF tm.m < 59 THEN [tm EXCEPT !.s = 0, !.m = @ + 1]
    ELSE [h |-> (tm.h + 1) % 24, m |-> 0, s |-> 0]

InitClock ==
    /\ InitAt({tm \in Times : tm.s = 0})
    /\ twin = main(NewRev, TRUE, NoFile, [h |-> 0, m |-> 0, s |-> 0])
    /\ rev = NewRev
    /\ writable
    /\ first_run

\* one second later the timer calls time_update_task
ClockTick ==
    /\ time_label_text # <<>>
    /\ Commit(time_update_task([InLoop EXCEPT !.now = Tick(now)]))

ClockToggleSeconds ==
    /\ time_label_text # <<>>
    /\ Commit(time_update_task([InLoop EXCEPT !.show_seconds = ~show_seconds]))

ClockToggleHourFormat ==
    /\ time_label_text # <<>>
    /\ Commit(time_update_task([InLoop EXCEPT !.is_24_hour_format = ~is_24_hour_format]))

NextClock == ClockTick \/ ClockToggleSeconds \/ ClockToggleHourFormat

SpecClock == InitClock /\ [][NextClock]_vars

\* The number a two-digit field shows.
FieldValue(str, k) ==
    LET val(c) == CHOOSE d \in 0..9 : Digit[d + 1] = c
    IN  10 * val(str[k]) + val(str[k + 1])

\* C20: the clock label is the time in the format the flags select: HH:MM:SS
\* (8 characters) or HH:MM (5) in 24-hour mode, the same with the hour on
\* the 12-hour clock and " AM" / " PM" appended in 12-hour mode; the text
\* with seconds is the text without seconds with ":SS" inserted after the
\* minutes.
C20_ClockFormat ==
    LET with == strftime(format_str(is_24_hour_format, TRUE), now)
        without == strftime(format_str(is_24_hour_format, FALSE), now)
        n == Len(without)
    IN  /\ ~ub
        /\ time_label_text = IF show_seconds THEN with ELSE without
        /\ n = IF is_24_hour_format THEN 5 ELSE 8
        /\ Len(with) = n + 3
        /\ without[3] = ":"
        /\ FieldValue(without, 4) = now.m
        /\ IF is_24_hour_format
           THEN FieldValue(without, 1) = now.h
           ELSE /\ FieldValue(without, 1) \in 1..12
                /\ FieldValue(without, 1) % 12 = now.h % 12
                /\ SubSeq(without, 6, 8) =
                      IF now.h < 12 THEN <<" ", "A", "M">> ELSE <<" ", "P", "M">>
        /\ SubSeq(with, 1, 5) = SubSeq(without, 1, 5)
        /\ with[6] = ":"
        /\ FieldValue(with, 7) = now.s
        /\ SubSeq(with, 9, n + 3) = SubSeq(without, 6, n)

\* C20 witness: half a minute past midnight, 12-hour mode, seconds shown
C20_Witness ==
    /\ now = [h |-> 0, m |-> 0, s |-> 30]
    /\ ~is_24_hour_format
    /\ show_seconds
    /\ time_label_text = <<"1", "2", ":", "0", "0", ":", "3", "0", " ", "A", "M">>

\* ------------------------------------------------------- the NES browser
\* The group members that are children of the given screen, in group order.
GroupItemsOf(id) == SelectSeq(grp, LAMBDA x : x.s = id)

\* The last handler opened the NES browser.
NesOpened == created # NULL /\ scr[created].kind = "nes_browser"

\* C21: the NES browser opened on an existing directory without regular
\* files has Back as its only item, no game entry and no text, and the
\* focus is on Back.
C21_EmptyDirOnlyBack ==
    (NesOpened /\ First("opendir", "ok") # 0 /\ FirstOf("DT_REG") = 0) =>
        /\ scr[created].children = <<"Back">>
        /\ GroupItemsOf(created) = <<Item(created, 0)>>
        /\ focus = Item(created, 0)
        /\ Visible(created)

\* C21 witness: the directory holds ".", ".." and a subdirectory
C21_Witness ==
    /\ NesOpened
    /\ First("opendir", "ok") # 0
    /\ FirstOf("DT_REG") = 0
    /\ First("DT_DIR", RomNames[1]) # 0
    /\ focus = Item(created, 0)

\* The children of the browser of a directory that could not be opened.
ErrorBrowser == <<"Back", "Error: Cannot open dir">>

\* C22: when the ROM directory cannot be opened the browser is created all
\* the same: its children are Back and one text that is in no group, the
\* focus is on Back and stays there, and closing the screen deletes it,
\* shows the main menu and puts the focus on a main-menu item.
C22_MissingDirPlaceholder ==
    /\ \A id \in AliveNow :
          (scr[id].kind = "nes_browser" /\ scr[id].children = ErrorBrowser) =>
              /\ GroupItemsOf(id) = <<Item(id, 0)>>
              /\ Visible(id) => focus = Item(id, 0)
    /\ (NesOpened /\ First("opendir", "failed") # 0) =>
          /\ scr[created].children = ErrorBrowser
          /\ focus = Item(created, 0)
          /\ Visible(created)
    /\ (closed.kind = "nes_browser" /\ closed.children = ErrorBrowser) =>
          /\ ~\E id \in AliveNow : scr[id].kind = "nes_browser"
          /\ \A k \in 1..Len(grp) : grp[k].s \in AliveNow
          /\ closed.owner = MENU
          /\ Visible(MENU)
          /\ focus.s = MENU

\* C22 witness: the browser of a missing directory was opened and closed
C22_Witness ==
    /\ closed.kind = "nes_browser"
    /\ closed.children = ErrorBrowser
    /\ First("unhide", "menu") # 0

\* ------------------------------------------------------ the About screen
\* The lines of the About text that are error texts of a failed read.
ErrorLines(id) ==
    {k \in 1..Len(scr[id].text) :
        \E path \in {"/proc/meminfo", "/oem/pkpy/info"} :
            scr[id].text[k] = read_file_to_string(path, [ok |-> FALSE, content |-> ""])}

\* The reads of the last handler that failed.
FailedReads == {k \in 1..Len(trace) :
                   trace[k] \in {<<"fopen", "/proc/meminfo: failed">>,
                                 <<"fopen", "/oem/pkpy/info: failed">>}}

\* C23: the About screen is created whatever the two reads return, with
\* the focus on its Back button, and its text holds one error line for each
\* read that failed.
C23_ReadFailuresShown ==
    (created # NULL /\ scr[created].kind = "about") =>
        /\ Visible(created)
        /\ focus.s = created
        /\ FocusLabel = "Back"
        /\ Cardinality(ErrorLines(created)) = Cardinality(FailedReads)

\* ------------------------------------------- two runs, the same key presses
\* The handler LV_KEY_ENTER starts on the focused object of the state s.
\* in: whether the commands the handler issues succeed, and the files read.
Enter(s, in) ==
    LET t == s.focus
        k == IF t.s \in ScrIds THEN s.scr[t.s].kind ELSE "none"
        label == IF k = "mbox" /\ t.i = 1 THEN reboot_btns(s)[s.btn_id_sel + 1]
                 ELSE IF k = "none" THEN ""
                 ELSE lv_list_get_btn_text(s, t)
        a == Ev(Ev([s EXCEPT !.succeeds = in.ok], "on", k), "activate", label)
    IN  CASE k = "menu" ->
                IF s.rev = OldRev
                THEN main_menu_event_handler_old(a, t, in.meminfo, in.info)
                ELSE main_menu_event_handler(a, t, in.dir, in.meminfo, in.info)
          [] k = "settings" ->
                IF s.rev = OldRev THEN settings_menu_event_handler_old(a, t)
                ELSE settings_menu_event_handler(a, t)
          [] k = "time_settings" ->
                IF s.rev = OldRev THEN time_settings_menu_event_handler_old(a, t)
                ELSE time_settings_menu_event_handler(a, t)
          [] k = "about" -> about_screen_back_btn_event_handler(a)
          [] k = "console" -> console_exit_event_handler(a)
          [] k = "ota" -> ota_screen_back_btn_event_handler(a)
          [] k = "nes_browser" ->
                IF t.i = 0 THEN generic_delete_obj_event_cb(a, t.s)
                ELSE nes_game_launch_event_handler(a, t)
          [] k = "time_setter" ->
                IF t.i = 2 THEN time_save_event_cb(a, t.s)
                ELSE IF t.i = 3 THEN generic_delete_obj_event_cb(a, t.s)
                ELSE s
          [] k = "show_seconds_event_cb" -> show_seconds_event_cb(a, t)
          [] k = "hour_format_event_cb" -> hour_format_event_cb(a, t)
          [] k = "timezone" ->
                IF t.i < 4 THEN timezone_select_event_handler(a, t.s)
                ELSE generic_delete_obj_event_cb(a, t.s)
          [] k = "mbox" ->
                IF t.i = 0 THEN lv_msgbox_close(a, t.s)
                ELSE IF t.i = 1 THEN reboot_msgbox_event_handler(a, t.s)
                ELSE s
          [] OTHER -> s

\* The second run inside one lv_timer_handler() call of its poll loop.
TwinLoop ==
    [twin EXCEPT !.trace = <<>>, !.created = NULL, !.closed = NoClosed,
                 !.already_running = TRUE]

\* The second run after a step: its services are not followed either.
Second(h) == [h EXCEPT !.services = NoServices]

\* Both runs start from the same startup, without a preferences file.
InitPair == Init /\ first_run

\* The same navigation key in both runs.
PairKey ==
    /\ Len(grp) > 0
    /\ \E dir \in {1, -1} :
          /\ CommitOne(FocusMove(InLoop, dir))
          /\ twin' = Second(FocusMove(TwinLoop, dir))

PairKeyRightLeft ==
    /\ FocusKind = "mbox" /\ focus.i = 1
    /\ \E dir \in {1, -1} :
          /\ CommitOne(lv_btnmatrix_key(InLoop, dir))
          /\ twin' = Second(lv_btnmatrix_key(TwinLoop, dir))

\* LV_KEY_ENTER in both runs, with the same files and with command outcomes
\* of their own.
PairEnter ==
    /\ FocusKind # "none"
    /\ \E okA, okB \in BOOLEAN,
          meminfo \in ReadBy("About", MemInfos), info \in ReadBy("About", InfoFiles),
          dir \in ReadBy("NES Emulator", Dirs) :
          /\ CommitOne(Enter(InLoop, [ok |-> okA, meminfo |-> meminfo,
                                      info |-> info, dir |-> dir]))
          /\ twin' = Second(Enter(TwinLoop, [ok |-> okB, meminfo |-> meminfo,
                                             info |-> info, dir |-> dir]))
          /\ ~twin'.overflow

\* The timer in both runs.
PairTick ==
    /\ time_label_text # <<>>
    /\ CommitOne(time_update_task(InLoop))
    /\ twin' = Second(time_update_task(TwinLoop))

NextPair == PairKey \/ PairKeyRightLeft \/ PairEnter \/ PairTick

SpecPair == InitPair /\ [][NextPair]_vars

\* The UI state: allocated screens with their hidden flags, the group and
\* its focus, the handles and the preference flags.
UI(s) ==
    [scr |-> s.scr, grp |-> s.grp, focus |-> s.focus, btn_id_sel |-> s.btn_id_sel,
     time_label |-> s.time_label, time_label_hidden |-> s.time_label_hidden,
     about_screen |-> s.about_screen, console_screen |-> s.console_screen,
     settings_screen |-> s.settings_screen,
     time_settings_screen |-> s.time_settings_screen,
     ota_update_screen |-> s.ota_update_screen,
     nes_browser_screen |-> s.nes_browser_screen,
     show_seconds |-> s.show_seconds, is_24_hour_format |-> s.is_24_hour_format]

\* C24: two runs that get the same key presses and whose commands succeed
\* or fail independently are in the same UI state after every step.
C24_OutcomeIndependentUI ==
    UI(Cur) = UI(twin)

\* C24 witness: Save was activated in both runs; date -s succeeded in one
\* and failed in the other, and the clocks differ
C24_Witness ==
    /\ closed.kind = "time_setter"
    /\ twin.closed.kind = "time_setter"
    /\ First("system", "date -s") # 0
    /\ now # twin.now

\* ------------------------------------------- focus restored by child index
\* The button each close callback names in its comment or variable.
NamedLabel(kind) ==
    CASE kind = "settings" -> "Settings"
      [] kind = "nes_browser" -> "NES Emulator"
      [] kind = "ota" -> "OTA Update"
      [] kind = "console" -> "Console"
      [] OTHER -> ""

\* C25: after the Settings list, the NES browser, the OTA screen or the
\* console was closed, the focus is on the button its close callback names:
\* Settings, NES Emulator, OTA Update, Console.
C25_IndexSelectsNamedButton ==
    NamedLabel(closed.kind) # "" => FocusLabel = NamedLabel(closed.kind)

\* ------------------------------------------- the timer between key presses
\* The handlers of Spec and the clock going on: one second passes and the
\* timer calls time_update_task.  The clock is followed until the last digit
\* of the seconds is MaxSeconds.
MaxSeconds == 2

TimerSecond ==
    /\ time_label_text # <<>>
    /\ now.s % 10 # MaxSeconds
    /\ Commit(time_update_task([InLoop EXCEPT !.now = Tick(now)]))

InitTimer == Init /\ first_run /\ writable

NextTimer == Next \/ TimerSecond

SpecTimer == InitTimer /\ [][NextTimer]_vars

\* C26: a call of time_update_task by the timer, wherever it falls between
\* the handlers, changes nothing but the text of the clock label; the label
\* exists in every state, shown or hidden.
C26_TimerChangesOnlyLabelText ==
    /\ [](time_label # NULL /\ ~ub)
    /\ [][(Len(trace') = 1 /\ trace'[1][1] = "label") =>
             /\ UI(Cur)' = UI(Cur)
             /\ UNCHANGED <<prefs, edit_hour, edit_minute, blocked>>]_vars

\* C26 witness: the timer has changed the text of the label while the
\* console is open and the label is hidden
C26_Witness ==
    /\ FocusKind = "console"
    /\ time_label_hidden
    /\ Len(trace) = 1
    /\ trace[1][1] = "label"
    /\ now.s % 10 = MaxSeconds

\* The names of the entries the last readdir loop reported as regular
\* files, in the order read.
RegularFilesRead ==
    LET ks == SelectSeq([k \in 1..Len(trace) |-> k], LAMBDA k : trace[k][1] = "DT_REG")
    IN  [j \in 1..Len(ks) |-> trace[ks[j]][2]]

\* C27: the browser of a readable directory lists Back and then one button
\* for each regular file, all of them in the group, and none for any other
\* entry; activating a button builds the launch command from the file name
\* the button shows, and the shell runs the emulator on that file.
C27_OneEntryPerRegularFile ==
    /\ (NesOpened /\ First("opendir", "ok") # 0) =>
          /\ scr[created].children = <<"Back">> \o RegularFilesRead
          /\ GroupItemsOf(created) =
                [k \in 1..Len(scr[created].children) |-> Item(created, k - 1)]
          /\ \A k \in 1..Len(trace) :
                trace[k][1] = "DT_DIR" =>
                    \A j \in 1..Len(scr[created].children) :
                        scr[created].children[j] # trace[k][2]
    /\ (/\ Len(trace) >= 2
        /\ trace[1] = <<"on", "nes_browser">>
        /\ trace[2] # <<"activate", "Back">>) =>
          /\ FirstOf("snprintf") # 0
          /\ \A k \in 1..Len(trace) :
                trace[k][1] = "snprintf" => trace[k][2] = trace[2][2]
          /\ FirstOf("snprintf") < First("system", "/root/nes_start.sh \"/oem/nes_game/%s\" &")
          /\ First("argv", "/oem/nes_game/" \o trace[2][2]) # 0

\* ------------------------------------------- the commands and the services
\* The program together with the web server and the terminal: a command put
\* in the background takes effect at some later point, in any order with
\* the other commands under way and with the handlers.
CommitJobs(h) == CommitMain(h) /\ services' = h.services /\ twin' = twin /\ keys' = keys

JobsKey ==
    /\ Len(grp) > 0
    /\ \E dir \in {1, -1} : CommitJobs(FocusMove(InLoop, dir))

JobsEnter ==
    /\ FocusKind # "none"
    /\ \E meminfo \in ReadBy("About", MemInfos), info \in ReadBy("About", InfoFiles),
          dir \in ReadBy("NES Emulator", Dirs) :
          CommitJobs(Enter(InLoop, [ok |-> TRUE, meminfo |-> meminfo,
                                    info |-> info, dir |-> dir]))

\* What a command under way does when it takes effect.
Effect(sv, job) ==
    CASE job = "httpd restart" -> [sv EXCEPT !.httpd = TRUE]
      [] job = "httpd stop" -> [sv EXCEPT !.httpd = FALSE]
      [] job = "fbterm start" -> [sv EXCEPT !.fbterm = TRUE]
      [] OTHER -> sv

JobTakesEffect ==
    /\ \E job \in services.jobs :
          services' = [Effect(services, job) EXCEPT !.jobs = @ \ {job}]
    /\ UNCHANGED <<rev, writable, prefs, scr, grp, focus, btn_id_sel, time_label,
                   time_label_hidden, time_label_text, now, about_screen,
                   console_screen, settings_screen, time_settings_screen,
                   ota_update_screen, nes_browser_screen, show_seconds,
                   is_24_hour_format, edit_hour, edit_minute, trace, created,
                   closed, pushOnly, ub, first_run, blocked, twin, keys>>

InitJobs == Init /\ first_run /\ writable

NextJobs == JobsKey \/ JobsEnter \/ JobTakesEffect

SpecJobs == InitJobs /\ [][NextJobs]_vars

OtaScreens == {id \in AliveNow : scr[id].kind = "ota"}

\* A step of a handler: not one in which a command under way takes effect.
HandlerStep == ~(services'.jobs # services.jobs /\ services'.jobs \subseteq services.jobs)

\* C28: the web server commands follow the life of the OTA screen: restart
\* is issued by the handler that creates the screen and by no other, stop by
\* the handler that destroys it and by no other, so the screen exists
\* exactly while the last command issued is restart, and a stop follows a
\* restart.
C28_OtaCommandsAlternate ==
    /\ [](/\ (OtaScreens # {}) <=> (services.last = "restart")
          /\ Cardinality(OtaScreens) <= 1
          /\ (First("system", "toggle_httpd.sh restart &") # 0)
                <=> (First("create", "ota") # 0)
          /\ (First("system", "toggle_httpd.sh stop &") # 0)
                <=> (First("del", "ota") # 0)
          /\ Cardinality({k \in 1..Len(trace) :
                 trace[k][1] = "system"
                 /\ trace[k][2] \in {"toggle_httpd.sh restart &",
                                     "toggle_httpd.sh stop &"}}) <= 1)
    /\ [][HandlerStep =>
             /\ First("system", "toggle_httpd.sh stop &")' # 0 =>
                    services.last = "restart"
             /\ First("system", "toggle_httpd.sh restart &")' # 0 =>
                    services.last \in {"", "stop"}]_vars

\* C28 witness: the OTA screen was opened and closed, and stop was issued
C28_Witness ==
    /\ closed.kind = "ota"
    /\ services.last = "stop"
    /\ OtaScreens = {}

\* C29: once the OTA screen is closed and the commands under way have taken
\* effect, the web server is stopped.
C29_ServerStoppedAfterClose ==
    (services.last = "stop" /\ services.jobs = {}) => ~services.httpd

\* C30: when the Exit handler of the console has returned, the terminal is
\* not running and no start of it is under way.
C30_NoTerminalAfterExit ==
    (closed.kind = "console" /\ ~blocked) =>
        /\ ~services.fbterm
        /\ "fbterm start" \notin services.jobs

\* ------------------------------------------------- one launch per hand-off
\* A black screen of Start Game or of a NES game entry is allocated: the
\* launch command of the hand-off has been issued.
Launched == \E id \in AliveNow : scr[id].kind \in {"game", "transition"}

\* C31: in the newer revision, once a game has been launched no key input
\* issues a further launch command or creates a further transition screen.
C31_OneLaunchPerHandOff ==
    [][(rev = NewRev /\ Launched) =>
          \A k \in 1..Len(trace') :
              /\ ~(trace'[k][1] = "system" /\ trace'[k][2] \in LaunchCommands)
              /\ ~(trace'[k][1] = "create" /\ trace'[k][2] \in {"game", "transition"})]_vars

\* ---------------------------------------------------------- navigation out
\* The main menu is active in the state s: shown and holding the focus.
MenuActive(s) == s.focus.s = MENU /\ ~s.scr[MENU].hidden

\* The Back, Exit or close controls the active screen of s offers to the
\* keypad.
BackControls(s) ==
    {k \in 1..Len(s.grp) :
        /\ s.grp[k].s = s.focus.s
        /\ Shown(s, s.grp[k])
        /\ lv_list_get_btn_text(s, s.grp[k]) \in {"Back", "Exit", "close"}}

\* The focus is moved to the Back, Exit or close control of the active
\* screen and LV_KEY_ENTER is pressed; the commands terminate.
BackOut(s) ==
    IF s.focus = NoItem \/ MenuActive(s) \/ BackControls(s) = {} THEN s
    ELSE LET k == CHOOSE j \in BackControls(s) : TRUE
             r == Enter([s EXCEPT !.focus = s.grp[k], !.trace = <<>>,
                                  !.created = NULL, !.closed = NoClosed],
                        [ok |-> TRUE, meminfo |-> CHOOSE f \in MemInfos : TRUE,
                         info |-> CHOOSE f \in InfoFiles : TRUE,
                         dir |-> CHOOSE d \in Dirs : TRUE])
         IN  r

\* C32: from a state whose active screen is not the main menu and offers a
\* Back, Exit or close control, three activations of that control at most
\* make the main menu active; no screen is deeper than four in the chain of
\* owners.
C32_BackReachesMenu ==
    /\ (~blocked /\ focus # NoItem /\ ~MenuActive(Cur) /\ BackControls(Cur) # {}) =>
           MenuActive(BackOut(BackOut(BackOut(InLoop))))
    /\ \A id \in AliveNow : Len(OwnerPath(id, MaxScr)) <= 4

\* C32 witness: a sub-page of Time Settings, the fourth screen of the
\* chain, is active
C32_Witness ==
    /\ focus # NoItem
    /\ BackControls(Cur) # {}
    /\ Len(OwnerPath(focus.s, MaxScr)) = 4
    /\ ~scr[focus.s].hidden

\* -------------------------------------------------------- the time setter
\* The keys handled by time_value_adjust_event_cb in one run.
MaxKeys == 4

\* Startups just before and just after midnight.
SetterTimes == {[h |-> 23, m |-> 59, s |-> 0], [h |-> 0, m |-> 0, s |-> 30]}

InitSetter == InitAt(SetterTimes) /\ twin = Cur /\ first_run /\ writable

\* One handler of the time setter that counts its key.
CommitKeys(h) ==
    CommitMain(h) /\ services' = services /\ twin' = twin /\ keys' = keys + 1

\* A key other than NEXT and PREV while the hour or the minute field is
\* focused: LV_EVENT_KEY.
SetterKey ==
    /\ FocusKind = "time_setter" /\ focus.i \in {0, 1}
    /\ keys < MaxKeys
    /\ \E key \in Keys : CommitKeys(time_value_adjust_event_cb(InLoop, focus, key))

\* LV_KEY_ENTER on the way to the time setter and back, and on its buttons;
\* date -s succeeds or fails.
SetterEnter ==
    /\ FocusKind \in {"menu", "settings", "time_settings", "time_setter"}
    /\ ClickLabel \in {"Settings", "Time Settings", "Set time", "Save", "Back"}
    /\ \E ok \in BOOLEAN :
          Commit(Enter(InLoop, [ok |-> ok, meminfo |-> CHOOSE f \in MemInfos : TRUE,
                                info |-> CHOOSE f \in InfoFiles : TRUE,
                                dir |-> CHOOSE d \in Dirs : TRUE]))

NextSetter == KeyNext \/ KeyPrev \/ SetterEnter \/ SetterKey

SpecSetter == InitSetter /\ [][NextSetter]_vars

\* The field values after one more key on the focused field.
AfterKey(s, key) ==
    LET r == time_value_adjust_event_cb(s, s.focus, key)
    IN  [s EXCEPT !.edit_hour = r.edit_hour, !.edit_minute = r.edit_minute]

\* C33: the edited hour stays in 0..23 and the edited minute in 0..59; on
\* the focused field, whatever value it holds, UP steps to the next value
\* and DOWN to the previous one, around the ends (23 -> 0, 0 -> 23,
\* 59 -> 0, 0 -> 59), and DOWN after UP restores the value.
C33_FieldsWrap ==
    /\ edit_hour \in 0..23
    /\ edit_minute \in 0..59
    /\ (FocusKind = "time_setter" /\ focus.i \in {0, 1}) =>
          LET n == IF focus.i = 0 THEN 24 ELSE 60
              val(r) == IF focus.i = 0 THEN r.edit_hour ELSE r.edit_minute
              other(r) == IF focus.i = 0 THEN r.edit_minute ELSE r.edit_hour
          IN  \A v \in 0..(n - 1) :
                 LET s == IF focus.i = 0 THEN [InLoop EXCEPT !.edit_hour = v]
                          ELSE [InLoop EXCEPT !.edit_minute = v]
                     up == AfterKey(s, "LV_KEY_UP")
                     down == AfterKey(s, "LV_KEY_DOWN")
                     back == AfterKey(up, "LV_KEY_DOWN")
                 IN  /\ val(up) = (IF v = n - 1 THEN 0 ELSE v + 1)
                     /\ val(down) = (IF v = 0 THEN n - 1 ELSE v - 1)
                     /\ val(back) = v
                     /\ other(back) = other(s)

\* C33 witness: DOWN on the hour field at 00 gave 23, and the minute field
\* was taken around an end as well
C33_Witness ==
    /\ FocusKind = "time_setter"
    /\ keys > 1
    /\ now.h = 0 /\ now.m = 0
    /\ edit_hour = 23
    /\ edit_minute = 59

\* The last handler was started by LV_KEY_ENTER on the button of the time
\* setter with the given text.
SetterButton(tr, text) ==
    /\ Len(tr) >= 2
    /\ tr[1] = <<"on", "time_setter">>
    /\ tr[2] = <<"activate", text>>

\* C34: a key on the hour field leaves edit_minute alone, a key on the
\* minute field leaves edit_hour alone, a key other than UP and DOWN leaves
\* both alone; Back on the time setter issues no command, and the system
\* time changes in no step but one of Save.
C34_OnlySaveSetsTime ==
    [][/\ keys' # keys =>
            /\ focus.i = 0 => edit_minute' = edit_minute
            /\ focus.i = 1 => edit_hour' = edit_hour
            /\ trace'[1][2] \notin {"LV_KEY_UP", "LV_KEY_DOWN"} =>
                   edit_hour' = edit_hour /\ edit_minute' = edit_minute
            /\ now' = now
       /\ SetterButton(trace', "Back") =>
            /\ \A k \in 1..Len(trace') : trace'[k][1] # "system"
            /\ now' = now
       /\ now' # now => SetterButton(trace', "Save")]_vars

\* C34 witness: the page was left with Back after the fields were edited
\* away from the time
C34_Witness ==
    /\ SetterButton(trace, "Back")
    /\ closed.kind = "time_setter"
    /\ keys > 1
    /\ edit_hour # now.h
    /\ edit_minute # now.m

\* Index of the first effect <<what, arg>> in the effects tr (0: none).
FirstIn(tr, what, arg) ==
    LET ks == {k \in 1..Len(tr) : tr[k] = <<what, arg>>}
    IN  IF ks = {} THEN 0 ELSE CHOOSE k \in ks : \A j \in ks : k <= j

\* The times of day HH:MM:00 a command line sets.
TimesSetBy(tr) ==
    {hm \in (0..23) \X (0..59) : FirstIn(tr, "snprintf", date_command(hm[1], hm[2])) # 0}

\* C35: the edited values are set from the current time when the page is
\* created and change only by the keys handled on the page; Save builds
\* the date command from exactly these values with seconds 00, issues it,
\* then the hardware-clock write, then refreshes the clock label, then
\* deletes the page.
C35_SaveOrderAndValues ==
    [][/\ (created' # NULL /\ scr'[created'].kind = "time_setter") =>
             edit_hour' = now.h /\ edit_minute' = now.m
       /\ (edit_hour' # edit_hour \/ edit_minute' # edit_minute) =>
             \/ keys' # keys
             \/ created' # NULL /\ scr'[created'].kind = "time_setter"
       /\ SetterButton(trace', "Save") =>
             LET date == FirstIn(trace', "system", "date -s")
                 hwclock == FirstIn(trace', "system", "hwclock -w")
                 label == FirstIn(trace', "label",
                                  format_str(is_24_hour_format, show_seconds))
                 del == FirstIn(trace', "del", "time_setter")
             IN  /\ TimesSetBy(trace') = {<<edit_hour, edit_minute>>}
                 /\ FirstIn(trace', "snprintf", date_command(edit_hour, edit_minute)) < date
                 /\ date < hwclock
                 /\ hwclock < label
                 /\ label < del
                 /\ scr'[focus.s].kind = "free"]_vars

\* C35 witness: Save after keys on both fields; date -s succeeded and the
\* time is the edited one
C35_Witness ==
    /\ SetterButton(trace, "Save")
    /\ keys > 1
    /\ edit_hour = 22
    /\ edit_minute \in {1, 58}
    /\ now = [h |-> edit_hour, m |-> edit_minute, s |-> 0]
    /\ TimesSetBy(trace) = {<<edit_hour, edit_minute>>}

\* ------------------------------------------------- one flag per option page
\* The flag the file holds under the given key, as load_preferences reads
\* it (value == 1), and whether there is a file at all.
Persisted(p, key) == <<p.exists, p.exists /\ p[key] = 1>>

\* The last handler was started by LV_KEY_ENTER on the option with the
\* given text of the page with the given callback.
OptionChosen(tr, cb, text) ==
    /\ Len(tr) >= 2
    /\ tr[1] = <<"on", cb>>
    /\ tr[2] = <<"activate", text>>

\* C36: an option of the seconds-display page sets show_seconds to TRUE
\* exactly for On and leaves is_24_hour_format as it is, in memory and in
\* the file; an option of the hour-format page sets is_24_hour_format to
\* TRUE exactly for 24 Hour and leaves show_seconds as it is, in memory and
\* in the file.
C36_OneFlagPerPage ==
    [][/\ \A text \in {"On", "Off"} :
             OptionChosen(trace', "show_seconds_event_cb", text) =>
                /\ show_seconds' = (text = "On")
                /\ is_24_hour_format' = is_24_hour_format
                /\ Persisted(prefs', "IS_24_HOUR") = Persisted(prefs, "IS_24_HOUR")
       /\ \A text \in {"24 Hour", "12 Hour"} :
             OptionChosen(trace', "hour_format_event_cb", text) =>
                /\ is_24_hour_format' = (text = "24 Hour")
                /\ show_seconds' = show_seconds
                /\ Persisted(prefs', "SHOW_SECONDS") = Persisted(prefs, "SHOW_SECONDS")]_vars

\* C36 witness: Off was chosen on the seconds-display page while the
\* 12-hour format was selected; the file holds both
C36_Witness ==
    /\ OptionChosen(trace, "show_seconds_event_cb", "Off")
    /\ ~show_seconds
    /\ ~is_24_hour_format
    /\ prefs = [exists |-> TRUE, SHOW_SECONDS |-> 0, IS_24_HOUR |-> 0]

====
